---------------------------- MODULE Spec2Model ----------------------------
(***************************************************************************)
(* Retry-with-backoff request execution of the Ucotron SDKs.               *)
(*                                                                         *)
(* One logical call of one client is modelled per behaviour.  lang says    *)
(* which binding runs it: the Go client's doRequest or the Java client's   *)
(* executeWithRetry.  The transport is the environment: each round trip    *)
(* answers with an outcome drawn from Outcomes.  The caller may cancel the *)
(* Go call's context at any moment before the call returns.                *)
(***************************************************************************)
EXTENDS Integers, Sequences, FiniteSets, TLC

VARIABLES
    lang,         \* "go" | "java" | "php" | "kotlin": the binding that runs the call
    retryConfig,  \* Go: Client.retryConfig, as NewClient built it; Java: the RetryConfig
    defaultNamespace, \* Go: Client.defaultNamespace; Java: config.getDefaultNamespace()
    namespace,    \* the namespace argument of the call: "" (Go) or null (Java) for none
    body,         \* doRequest's body argument: "json" | "unencodable"
    urlOK,        \* whether method and URL make a valid http.Request
    responseType, \* executeWithRetry's responseType: "Void" | "typed"
    ctxDone,      \* Go: the call's context is cancelled (ctx.Done() is closed);
                  \* Java: the interrupt status of the calling thread
    pc,           \* where the call is: "start" | "inflight" | "select" (Go backoff) |
                  \* "sleep" (Java backoff) | "done"; "delay" for a direct retryDelay
    attempt,      \* the loop variable attempt
    lastErr,      \* Go: lastErr; Java: lastException
    result,       \* what the call returned or threw: [returned, body, err]
    prepared,     \* what the call fixes before its first attempt; Go: the local ns
                  \* (the resolved namespace); Java: the Request of buildRequest
    sent,         \* history: the request handed to the transport on each attempt
    log,          \* history: what the call did, in order
    calls,        \* the calls that run concurrently on one shared Go client: for each
                  \* call its goroutine's locals and its history; or the Go call and
                  \* the Java call that are given the same outcomes
    syncConfig,   \* UcotronSyncWorker.config: the SyncConfig (batchSize, maxRetries)
    callback,     \* UcotronSyncWorker.callback: Nil for null, else what its methods do
    pendingItems, \* doSync's argument: the list of PendingMemory
    cursor,       \* doSync: the position in batch of the item the for loop is at
    synced,       \* doSync: the local synced
    errors,       \* doSync: the local errors
    delayAttempt, \* the attempt index retryDelay was last called with, or -1
    delayOut      \* the delay retryDelay returned for it, in milliseconds, or -1

\* what a call is given: the client and the arguments
given == <<lang, retryConfig, defaultNamespace, namespace, body, urlOK, responseType>>

\* a direct call of the backoff function
probe == <<delayAttempt, delayOut>>

\* the call of the one-call specification
single == <<ctxDone, pc, attempt, lastErr, result, prepared, sent, log>>

\* the sync worker and its run
worker == <<syncConfig, callback, pendingItems, cursor, synced, errors>>

\* the state of the other components, which one call's retry loop leaves alone
others == <<calls, worker>>

vars == <<given, ctxDone, pc, attempt, lastErr, result, prepared, sent, log, probe, others>>

----------------------------------------------------------------------------
(* Bounds of the model *)

\* largest MaxRetries a caller configures explicitly
MaxRetriesBound == 2

\* largest attempt index the backoff function is evaluated at
MaxAttemptIndex == 6

----------------------------------------------------------------------------
(* Program constants *)

defaultMaxRetries == 3

defaultBaseDelayMs == 100

defaultMaxDelayMs == 5000

----------------------------------------------------------------------------
(* Values *)

Nil == [kind |-> "nil"]

\* HTTP statuses the server answers with: 2xx, 3xx, 4xx and 5xx
Statuses == {200, 304, 400, 404, 500, 503}

\* response bodies: a JSON object with a non-empty message field, a JSON
\* object without one, and text that is not JSON
Bodies == {"json_msg", "json_nomsg", "text"}

\* the body parses as a JSON object
IsJSON(b) == b \in {"json_msg", "json_nomsg"}

Resp(s, b) == [t |-> "resp", status |-> s, body |-> b, cause |-> "none"]

\* httpClient.Do returned an error
DoErr(c) == [t |-> "doErr", status |-> 0, body |-> "none", cause |-> c]

\* io.ReadAll(resp.Body) returned an error
ReadErr(c) == [t |-> "readErr", status |-> 0, body |-> "none", cause |-> c]

\* a 1xx answer that http.Client hands to its caller: 101 Switching Protocols
InformationalOutcomes == {Resp(101, "text")}

\* what one round trip can end in while the context is live
LiveOutcomes ==
    {Resp(s, b) : s \in Statuses, b \in Bodies} \cup {DoErr("net"), ReadErr("net")}
    \cup InformationalOutcomes

\* what a round trip ends in once its context is cancelled: it is aborted
AbortedOutcomes == {DoErr("ctx"), ReadErr("ctx")}

Outcomes == LiveOutcomes \cup AbortedOutcomes


----------------------------------------------------------------------------
(* Go client: construction *)

\* the configurations a caller hands to NewClient: none, one without a Retry
\* section, and Retry sections with valid, zero and negative fields; none of
\* them names a default namespace
GoConfigs ==
    {Nil, [Retry |-> Nil, DefaultNamespace |-> ""]}
    \cup {[Retry |-> [MaxRetries |-> m, BaseDelayMs |-> d[1], MaxDelayMs |-> d[2]],
           DefaultNamespace |-> ""] :
            m \in -1 .. MaxRetriesBound, d \in {<<0, -1>>, <<100, 250>>}}

NewClientKeepsGivenFields(config) ==
    IF config = Nil
    THEN [retryConfig |-> [MaxRetries  |-> defaultMaxRetries,
                           BaseDelayMs |-> defaultBaseDelayMs,
                           MaxDelayMs  |-> defaultMaxDelayMs],
          defaultNamespace |-> "default"]
    ELSE [retryConfig |-> IF config.Retry = Nil
                          THEN [MaxRetries  |-> defaultMaxRetries,
                                BaseDelayMs |-> defaultBaseDelayMs,
                                MaxDelayMs  |-> defaultMaxDelayMs]
                          ELSE config.Retry,
          defaultNamespace |-> IF config.DefaultNamespace # "" THEN config.DefaultNamespace
                               ELSE "default"]

\* NewClient: the retry configuration and the default namespace the client
\* keeps for a caller's configuration
NewClient(config) ==
    LET retry == [MaxRetries  |-> defaultMaxRetries,
                  BaseDelayMs |-> defaultBaseDelayMs,
                  MaxDelayMs  |-> defaultMaxDelayMs]
        defaultNS == "default"
    IN  IF config = Nil
        THEN [retryConfig |-> retry, defaultNamespace |-> defaultNS]
        ELSE [retryConfig |->
                 IF config.Retry = Nil THEN retry
                 ELSE [MaxRetries  |-> IF config.Retry.MaxRetries >= 0
                                       THEN config.Retry.MaxRetries ELSE retry.MaxRetries,
                       BaseDelayMs |-> IF config.Retry.BaseDelayMs > 0
                                       THEN config.Retry.BaseDelayMs ELSE retry.BaseDelayMs,
                       MaxDelayMs  |-> IF config.Retry.MaxDelayMs > 0
                                       THEN config.Retry.MaxDelayMs ELSE retry.MaxDelayMs],
              defaultNamespace |->
                 IF config.DefaultNamespace # "" THEN config.DefaultNamespace ELSE defaultNS]

resolveNamespaceIgnoresOverride(override) == defaultNamespace

\* Client.resolveNamespace: the override if there is one, else the default
resolveNamespace(override) ==
    IF override # "" THEN override ELSE defaultNamespace

\* the header X-Ucotron-Namespace is not on the request
absent == "<absent>"

\* the method and the URL (c.baseURL + path) of the call
Method == "POST"

URL == <<"baseURL", "/api/v1/memories">>

httpRequestDefaultOnRetry(method, url, bodyBytes, n) ==
    [method |-> method, url |-> url, body |-> bodyBytes,
     nsHeader |-> IF sent = << >> THEN n ELSE defaultNamespace]

\* the request of one attempt: http.NewRequestWithContext and the headers
\* set on it, of which the model keeps X-Ucotron-Namespace
httpRequest(method, url, bodyBytes, n) ==
    [method |-> method, url |-> url, body |-> bodyBytes, nsHeader |-> n]

----------------------------------------------------------------------------
(* Go client: backoff delay *)

RECURSIVE Pow2(_)
\* math.Pow(2, n) for an integer n >= 0
Pow2(n) == IF n <= 0 THEN 1 ELSE 2 * Pow2(n - 1)

retryDelayNoCap(cfg, k) == cfg.BaseDelayMs * Pow2(k)

\* Client.retryDelay, in milliseconds.  The float64 product of an int and a
\* power of two and the conversion back to an integer Duration are exact for
\* the values of the model, so they are computed on integers.  From attempt
\* 21 on the product of a positive base is at least 2^21, which a float64
\* holds and which is above a MaxDelayMs below 2^20: the cap is the result.
retryDelay(cfg, k) ==
    IF k > 20 /\ cfg.BaseDelayMs > 0 /\ cfg.MaxDelayMs < 2^20
    THEN cfg.MaxDelayMs
    ELSE LET delay == cfg.BaseDelayMs * Pow2(k)
         IN  IF delay > cfg.MaxDelayMs THEN cfg.MaxDelayMs ELSE delay

----------------------------------------------------------------------------
(* Go client: errors *)

\* http.StatusText
StatusText(statusCode) == <<"StatusText", statusCode>>

parseServerErrorTrustsBody(statusCode, respBody) ==
    [kind |-> "UcotronServerError", StatusCode |-> statusCode,
     Code |-> <<"code of", respBody>>, Message |-> <<"message of", respBody>>]

\* parseServerError: Code and Message from the body if json.Unmarshal accepts
\* it and its message is not empty, else the reason phrase and the raw body
parseServerError(statusCode, respBody) ==
    IF IsJSON(respBody) /\ respBody = "json_msg"
    THEN [kind |-> "UcotronServerError", StatusCode |-> statusCode,
          Code |-> <<"code of", respBody>>, Message |-> <<"message of", respBody>>]
    ELSE [kind |-> "UcotronServerError", StatusCode |-> statusCode,
          Code |-> StatusText(statusCode), Message |-> <<"raw", respBody>>]

UcotronConnectionError(message, cause) ==
    [kind |-> "UcotronConnectionError", Message |-> message, Cause |-> cause]

UcotronRetriesExhaustedError(attempts, lastError) ==
    [kind |-> "UcotronRetriesExhaustedError", Attempts |-> attempts, LastError |-> lastError]

\* ctx.Err(): context.Canceled or context.DeadlineExceeded
CtxErr == [kind |-> "ctx.Err"]

\* fmt.Errorf("failed to marshal request body: %w", err) and
\* fmt.Errorf("failed to create request: %w", err)
RawError(message) == [kind |-> "fmt.wrapError", Message |-> message]

NotReturned == [returned |-> FALSE, body |-> "none", err |-> Nil]

ReturnBody(b) == [returned |-> TRUE, body |-> b, err |-> Nil]

ReturnErr(e) == [returned |-> TRUE, body |-> "none", err |-> e]

----------------------------------------------------------------------------
(* Go client: doRequest *)

maxAttemptsOffByOne(cfg) == cfg.MaxRetries

\* maxAttempts := c.retryConfig.MaxRetries + 1
maxAttempts(cfg) == cfg.MaxRetries + 1

IsSuccessBelow300(statusCode) == statusCode < 300

IsSuccessStrict(statusCode) == statusCode > 200 /\ statusCode < 300

\* resp.StatusCode >= 200 && resp.StatusCode < 300
IsSuccess(statusCode) == statusCode >= 200 /\ statusCode < 300

IsClientErrorStrict(statusCode) == statusCode > 400 /\ statusCode < 500

\* resp.StatusCode >= 400 && resp.StatusCode < 500
IsClientError(statusCode) == statusCode >= 400 /\ statusCode < 500

backoffAlways(k, n) == k < n

\* attempt < maxAttempts-1: a backoff follows every attempt but the last
backoff(k, n) == k < n - 1

\* one pass from the head of the for loop to the next point the call waits
\* at: the loop test, the marshalling of the body, the building of the
\* request and the call of httpClient.Do; lg is the history so far and n is
\* the local ns
Iterate(k, lg, n) ==
    IF k < maxAttempts(retryConfig)
    THEN IF body = "unencodable"
         THEN /\ result' = ReturnErr(RawError("failed to marshal request body"))
              /\ pc' = "done"
              /\ log' = lg
              /\ sent' = sent
         ELSE IF ~urlOK
         THEN /\ result' = ReturnErr(RawError("failed to create request"))
              /\ pc' = "done"
              /\ log' = lg
              /\ sent' = sent
         ELSE /\ result' = result
              /\ pc' = "inflight"
              /\ log' = Append(lg, <<"send", k>>)
              /\ sent' = Append(sent, httpRequest(Method, URL, <<"json.Marshal", body>>, n))
    ELSE /\ result' = ReturnErr(UcotronRetriesExhaustedError(maxAttempts(retryConfig), lastErr))
         /\ pc' = "done"
         /\ log' = lg
         /\ sent' = sent

\* the caller invokes doRequest: the first pass of the loop
doRequest_Call ==
    /\ lang = "go"
    /\ pc = "start"
    /\ prepared' = resolveNamespace(namespace)
    /\ attempt' = 0
    /\ Iterate(0, log, prepared')
    /\ UNCHANGED <<given, probe, others, ctxDone, lastErr>>

RetryableKeepFirst(err, lg) ==
    LET kept == IF lastErr = Nil THEN err ELSE lastErr
    IN  /\ lastErr' = kept
        /\ IF backoff(attempt, maxAttempts(retryConfig))
           THEN /\ pc' = "select"
                /\ log' = Append(lg, <<"sleep", attempt, retryDelay(retryConfig, attempt)>>)
                /\ UNCHANGED <<attempt, result>>
           ELSE /\ attempt' = attempt + 1
                /\ pc' = "done"
                /\ log' = lg
                /\ result' = ReturnErr(UcotronRetriesExhaustedError(
                                 maxAttempts(retryConfig), kept))

RetryableReturnsBare(err, lg) ==
    /\ lastErr' = err
    /\ IF backoff(attempt, maxAttempts(retryConfig))
       THEN /\ pc' = "select"
            /\ log' = Append(lg, <<"sleep", attempt, retryDelay(retryConfig, attempt)>>)
            /\ UNCHANGED <<attempt, result>>
       ELSE /\ attempt' = attempt + 1
            /\ pc' = "done"
            /\ log' = lg
            /\ result' = ReturnErr(err)

\* a retryable failure err of the current attempt: it becomes lastErr; then
\* either the call waits in the select of the backoff, or this was the last
\* attempt, the loop ends and the call returns UcotronRetriesExhaustedError
Retryable(err, lg) ==
    /\ lastErr' = err
    /\ IF backoff(attempt, maxAttempts(retryConfig))
       THEN /\ pc' = "select"
            /\ log' = Append(lg, <<"sleep", attempt, retryDelay(retryConfig, attempt)>>)
            /\ UNCHANGED <<attempt, result>>
       ELSE /\ attempt' = attempt + 1
            /\ pc' = "done"
            /\ log' = lg
            /\ result' = ReturnErr(UcotronRetriesExhaustedError(
                             maxAttempts(retryConfig), err))

\* httpClient.Do returns (and, on a response, io.ReadAll) with outcome o
doRequest_Do ==
    /\ lang = "go"
    /\ pc = "inflight"
    /\ \E o \in (IF ctxDone THEN AbortedOutcomes ELSE LiveOutcomes) :
         LET lg == Append(log, <<"recv", attempt, o>>)
         IN  CASE o.t = "doErr" ->
                    Retryable(UcotronConnectionError("request failed", o.cause), lg)
               [] o.t = "readErr" ->
                    Retryable(UcotronConnectionError("failed to read response body", o.cause), lg)
               [] o.t = "resp" /\ IsSuccess(o.status) ->
                    /\ result' = ReturnBody(o.body)
                    /\ pc' = "done"
                    /\ log' = lg
                    /\ UNCHANGED <<attempt, lastErr>>
               [] o.t = "resp" /\ ~IsSuccess(o.status) /\ IsClientError(o.status) ->
                    /\ result' = ReturnErr(parseServerError(o.status, o.body))
                    /\ pc' = "done"
                    /\ log' = lg
                    /\ UNCHANGED <<attempt, lastErr>>
               [] OTHER ->
                    Retryable(parseServerError(o.status, o.body), lg)
    /\ UNCHANGED <<given, probe, others, ctxDone, prepared, sent>>

\* select, case <-time.After(c.retryDelay(attempt)): the backoff has elapsed
\* and the next pass of the loop runs.  A select takes the first case that
\* becomes ready: the timer's delay is positive, ctx.Done() is ready from the
\* moment of the cancellation, so the timer case is taken only while the
\* context is live.
doRequest_TimerFires ==
    /\ lang = "go"
    /\ pc = "select"
    /\ ~ctxDone
    /\ attempt' = attempt + 1
    /\ Iterate(attempt + 1, Append(log, <<"wake", attempt>>), prepared)
    /\ UNCHANGED <<given, probe, others, ctxDone, lastErr, prepared>>

doRequest_CtxDoneContinues ==
    /\ lang = "go"
    /\ pc = "select"
    /\ ctxDone
    /\ attempt' = attempt + 1
    /\ Iterate(attempt + 1, Append(log, <<"wake", attempt>>), prepared)
    /\ UNCHANGED <<given, probe, others, ctxDone, lastErr, prepared>>

\* select, case <-ctx.Done(): return nil, ctx.Err()
doRequest_CtxDone ==
    /\ lang = "go"
    /\ pc = "select"
    /\ ctxDone
    /\ result' = ReturnErr(CtxErr)
    /\ pc' = "done"
    /\ UNCHANGED <<given, probe, others, ctxDone, attempt, lastErr, prepared, sent, log>>

\* the caller cancels the context of the call (or its deadline passes)
Cancel ==
    /\ lang = "go"
    /\ pc # "done"
    /\ ~ctxDone
    /\ ctxDone' = TRUE
    /\ log' = Append(log, <<"cancel", pc>>)
    /\ UNCHANGED <<given, probe, others, pc, attempt, lastErr, result, prepared, sent>>

\* the calls of the model: an encodable body, a body json.Marshal rejects,
\* and a method or URL http.NewRequestWithContext rejects
GoCalls == {<<"json", TRUE>>, <<"unencodable", TRUE>>, <<"json", FALSE>>}

\* no sync worker is in use
SyncIdle ==
    /\ syncConfig = Nil
    /\ callback = Nil
    /\ pendingItems = << >>
    /\ cursor = 0
    /\ synced = 0
    /\ errors = << >>

\* the other components are not in use
OthersIdle == calls = << >> /\ SyncIdle

\* a call that has not started
NotStarted ==
    /\ OthersIdle
    /\ ctxDone = FALSE
    /\ pc = "start"
    /\ attempt = 0
    /\ lastErr = Nil
    /\ result = NotReturned
    /\ prepared = IF lang = "go" THEN "" ELSE Nil
    /\ sent = << >>
    /\ log = << >>
    /\ delayAttempt = -1
    /\ delayOut = -1

\* calls without a namespace on clients of every retry configuration
InitGo ==
    /\ lang = "go"
    /\ \E c \in GoConfigs : /\ retryConfig = NewClient(c).retryConfig
                            /\ defaultNamespace = NewClient(c).defaultNamespace
    /\ namespace = ""
    /\ \E c \in GoCalls : body = c[1] /\ urlOK = c[2]
    /\ responseType = "none"
    /\ NotStarted

\* the namespaces of the model: none, a default of the client, an override
\* of the call, both
NamespaceConfigs ==
    {[Retry |-> [MaxRetries |-> 2, BaseDelayMs |-> 100, MaxDelayMs |-> 250],
      DefaultNamespace |-> d] : d \in {"", "tenant"}}

\* calls with and without a namespace override on clients with and without a
\* default namespace
InitGoNamespace ==
    /\ lang = "go"
    /\ \E c \in NamespaceConfigs : /\ retryConfig = NewClient(c).retryConfig
                                   /\ defaultNamespace = NewClient(c).defaultNamespace
    /\ namespace \in {"", "ns1"}
    /\ body = "json"
    /\ urlOK = TRUE
    /\ responseType = "none"
    /\ NotStarted

----------------------------------------------------------------------------
(* Java client: executeWithRetry *)

\* RetryConfig(maxRetries, baseDelay, maxDelay): the constructor checks nothing
JavaConfigs ==
    {[maxRetries |-> m, baseDelay |-> 100, maxDelay |-> 250] : m \in -1 .. MaxRetriesBound}

\* what one OkHttp round trip ends in: a response whose body can be read, an
\* IOException of execute(), or a response (status known) whose body read
\* throws an IOException
JavaOutcomes ==
    {Resp(s, b) : s \in Statuses, b \in Bodies}
    \cup {DoErr("net")}
    \cup {[t |-> "readErr", status |-> s, body |-> "none", cause |-> "net"] : s \in Statuses}

UcotronServerException(statusCode, message) ==
    [kind |-> "UcotronServerException", statusCode |-> statusCode, message |-> message]

UcotronConnectionException(cause) ==
    [kind |-> "UcotronConnectionException", cause |-> cause]

UcotronRetriesExhaustedException(attempts, lastError) ==
    [kind |-> "UcotronRetriesExhaustedException", attempts |-> attempts, cause |-> lastError]

\* a Java null reference to a String
null == "<null>"

\* buildRequest and the build() of the endpoint method: the Request of the
\* call, of which the model keeps the method, the URL, the body and the
\* namespace header
buildRequest(path, nsArg) ==
    LET n == IF nsArg # null THEN nsArg ELSE defaultNamespace
    IN  [method |-> Method, url |-> <<"baseUrl", path>>, body |-> <<"gson.toJson", body>>,
         nsHeader |-> IF n # null THEN n ELSE absent]

propagatesNever(e) == FALSE

\* the catch clause for UcotronServerException rethrows a 4xx
propagates(e) == e.statusCode >= 400 /\ e.statusCode < 500

\* gson.fromJson rejects a body that is not JSON
JsonSyntaxException == [kind |-> "JsonSyntaxException"]

\* A Java long is a 64-bit two's complement integer.  It is kept as its
\* bits: a function from the bit positions 0 .. 63 to {0, 1}, bit 63 being
\* the sign.
toLong(n) ==
    [i \in 0 .. 63 |-> IF i <= 30 THEN (n \div 2^i) % 2 ELSE IF n < 0 THEN 1 ELSE 0]

\* x * (1L << s) in long arithmetic, for a shift distance s in 0 .. 63: the
\* low 64 bits of x * 2^s, which are the bits of x moved up by s
timesPow2(x, s) ==
    [i \in 0 .. 63 |-> IF i >= s THEN x[i - s] ELSE 0]

\* x < y on longs
lessThan(x, y) ==
    \/ x[63] > y[63]
    \/ /\ x[63] = y[63]
       /\ \E i \in 0 .. 62 : x[i] < y[i] /\ \A j \in i + 1 .. 62 : x[j] = y[j]

\* computeRetryDelay, in milliseconds, as a long.  1L << attempt shifts by
\* the low six bits of attempt, and the product wraps around at 64 bits.
computeRetryDelay(k, cfg) ==
    LET delay == timesPow2(toLong(cfg.baseDelay), k % 64)
        maxDelay == toLong(cfg.maxDelay)
    IN  IF lessThan(delay, maxDelay) THEN delay ELSE maxDelay

\* Thread.sleep rejects a negative timeout
IllegalArgumentException == [kind |-> "IllegalArgumentException"]

\* one pass from the head of the for loop to the next point the call waits
\* at: the loop test, then Thread.sleep before a retry or the round trip of
\* the first attempt
JIterate(k, lg) ==
    IF k <= retryConfig.maxRetries
    THEN IF k > 0
         THEN LET delay == computeRetryDelay(k - 1, retryConfig)
              IN  IF lessThan(delay, toLong(0))
                  THEN /\ pc' = "done"
                       /\ log' = lg
                       /\ result' = ReturnErr(IllegalArgumentException)
                       /\ sent' = sent
                  ELSE /\ pc' = "sleep"
                       /\ log' = Append(lg, <<"sleep", k - 1, delay>>)
                       /\ result' = result
                       /\ sent' = sent
         ELSE /\ pc' = "inflight"
              /\ log' = Append(lg, <<"send", k>>)
              /\ result' = result
              /\ sent' = Append(sent, prepared')
    ELSE /\ pc' = "done"
         /\ log' = lg
         /\ sent' = sent
         /\ result' = ReturnErr(UcotronRetriesExhaustedException(
                          retryConfig.maxRetries + 1, lastErr'))

\* the caller invokes an endpoint method, which calls executeWithRetry
executeWithRetry_Call ==
    /\ lang = "java"
    /\ pc = "start"
    /\ prepared' = buildRequest("/api/v1/memories", namespace)
    /\ attempt' = 0
    /\ lastErr' = lastErr
    /\ JIterate(0, log)
    /\ UNCHANGED <<given, probe, others, ctxDone>>

\* Thread.sleep(delay) returns and the round trip of the retry starts
executeWithRetry_Sleep ==
    /\ lang = "java"
    /\ pc = "sleep"
    /\ pc' = "inflight"
    /\ log' = Append(Append(log, <<"wake", attempt - 1>>), <<"send", attempt>>)
    /\ sent' = Append(sent, prepared)
    /\ UNCHANGED <<given, probe, others, ctxDone, attempt, lastErr, result, prepared>>

\* the calling thread is interrupted while it is in Thread.sleep(delay):
\* sleep throws InterruptedException, the catch clause sets the interrupt
\* status again and throws a UcotronConnectionException, which leaves
\* executeWithRetry
executeWithRetry_Interrupted ==
    /\ lang = "java"
    /\ pc = "sleep"
    /\ ctxDone' = TRUE
    /\ pc' = "done"
    /\ result' = ReturnErr(UcotronConnectionException("InterruptedException"))
    /\ log' = Append(log, <<"cancel", "sleep">>)
    /\ UNCHANGED <<given, probe, others, attempt, lastErr, prepared, sent>>

\* httpClient.newCall(request).execute() ends with outcome o, and the body
\* of the try block and the catch clauses run
executeWithRetry_Execute ==
    /\ lang = "java"
    /\ pc = "inflight"
    /\ \E o \in JavaOutcomes :
         LET lg == Append(log, <<"recv", attempt, o>>)
             readFails == o.t = "readErr"
             code == o.status
         IN  CASE o.t = "doErr" ->
                    /\ lastErr' = UcotronConnectionException(o.cause)
                    /\ attempt' = attempt + 1
                    /\ JIterate(attempt + 1, lg)
               [] o.t # "doErr" /\ code >= 400 /\ code < 500 ->
                    IF readFails
                    THEN /\ lastErr' = UcotronConnectionException(o.cause)
                         /\ attempt' = attempt + 1
                         /\ JIterate(attempt + 1, lg)
                    ELSE IF propagates(UcotronServerException(code, o.body))
                    THEN /\ result' = ReturnErr(UcotronServerException(code, o.body))
                         /\ pc' = "done"
                         /\ log' = lg
                         /\ UNCHANGED <<attempt, lastErr, sent>>
                    ELSE /\ lastErr' = UcotronServerException(code, o.body)
                         /\ attempt' = attempt + 1
                         /\ JIterate(attempt + 1, lg)
               [] o.t # "doErr" /\ code >= 500 ->
                    /\ lastErr' = IF readFails THEN UcotronConnectionException(o.cause)
                                  ELSE UcotronServerException(code, o.body)
                    /\ attempt' = attempt + 1
                    /\ JIterate(attempt + 1, lg)
               [] OTHER ->
                    IF responseType = "Void"
                    THEN /\ result' = ReturnBody("null")
                         /\ pc' = "done"
                         /\ log' = lg
                         /\ UNCHANGED <<attempt, lastErr, sent>>
                    ELSE IF readFails
                    THEN /\ lastErr' = UcotronConnectionException(o.cause)
                         /\ attempt' = attempt + 1
                         /\ JIterate(attempt + 1, lg)
                    ELSE /\ result' = IF ~IsJSON(o.body) THEN ReturnErr(JsonSyntaxException)
                                      ELSE ReturnBody(o.body)
                         /\ pc' = "done"
                         /\ log' = lg
                         /\ UNCHANGED <<attempt, lastErr, sent>>
    /\ UNCHANGED <<given, probe, others, ctxDone, prepared>>

InitJava ==
    /\ lang = "java"
    /\ retryConfig \in JavaConfigs
    /\ defaultNamespace = null
    /\ namespace = null
    /\ body = "json"
    /\ urlOK = TRUE
    /\ responseType \in {"Void", "typed"}
    /\ NotStarted

InitJavaNamespace ==
    /\ lang = "java"
    /\ retryConfig = [maxRetries |-> 2, baseDelay |-> 100, maxDelay |-> 250]
    /\ defaultNamespace \in {null, "tenant"}
    /\ namespace \in {null, "ns1"}
    /\ body = "json"
    /\ urlOK = TRUE
    /\ responseType = "typed"
    /\ NotStarted

----------------------------------------------------------------------------
(* PHP client: UcotronClient::request over the RetryMiddleware *)

\* RetryConfig(maxRetries, baseDelayMs, maxDelayMs): the constructor checks
\* nothing; a base delay of 0 makes every delay 0
PhpConfigs ==
    {[maxRetries |-> m, baseDelayMs |-> d, maxDelayMs |-> 10] :
        m \in -1 .. MaxRetriesBound, d \in {0, 4}}

\* what the Guzzle handler's promise settles with: a response, or a rejection
\* with a ConnectException or with another RequestException
PhpOutcomes ==
    {Resp(s, b) : s \in Statuses, b \in Bodies}
    \cup {DoErr("ConnectException"), DoErr("RequestException")}

PhpServerException(statusCode, errorBody) ==
    [kind |-> "UcotronServerException", statusCode |-> statusCode, errorBody |-> errorBody]

PhpConnectionException(previous) ==
    [kind |-> "UcotronConnectionException", previous |-> previous]

jitterValuesUpToHalf(delay) == 0 .. delay \div 2

\* (int) ($delay * 0.25 * (mt_rand() / mt_getrandmax())): the random factor
\* lies in [0, 1] and the cast cuts the fraction off, towards zero
jitterValues(delay) ==
    IF delay >= 0 THEN 0 .. delay \div 4 ELSE -((-delay) \div 4) .. 0

\* RetryMiddleware::calculateDelay: the delays it can return for retry
\* number n, one for each value of the jitter
calculateDelay(n, cfg) ==
    LET delay == cfg.baseDelayMs * 2^(n - 1)
    IN  {IF delay + jitter < cfg.maxDelayMs THEN delay + jitter ELSE cfg.maxDelayMs :
            jitter \in jitterValues(delay)}

mayRetryOnceMore(k, cfg) == k <= cfg.maxRetries

\* $attempt < $this->config->maxRetries
mayRetry(k, cfg) == k < cfg.maxRetries

\* UcotronClient::request once the client's promise has settled with o: the
\* catch clauses, and the status check on a response
requestEnds(o) ==
    IF o.t = "doErr" THEN ReturnErr(PhpConnectionException(o.cause))
    ELSE IF o.status >= 200 /\ o.status < 300
    THEN ReturnBody(IF IsJSON(o.body) THEN <<"decoded", o.body>> ELSE <<"raw", o.body>>)
    ELSE ReturnErr(PhpServerException(o.status, o.body))

\* the caller invokes an endpoint method: request() hands the request to the
\* handler stack, and RetryMiddleware::retry calls the handler with attempt 0
request_Call ==
    /\ lang = "php"
    /\ pc = "start"
    /\ attempt' = 0
    /\ pc' = "inflight"
    /\ log' = Append(log, <<"send", 0>>)
    /\ UNCHANGED <<given, probe, others, ctxDone, lastErr, result, prepared, sent>>

\* the handler's promise settles with outcome o and a callback of retry
\* runs: a response below 500 passes through; a 5xx response or a
\* ConnectException is retried while attempt < maxRetries, after
\* sleep(attempt + 1), which calls usleep only for a positive delay; anything
\* else is passed on as it is, and request() ends the call
retry_Settled ==
    /\ lang = "php"
    /\ pc = "inflight"
    /\ \E o \in PhpOutcomes :
         LET lg == Append(log, <<"recv", attempt, o>>)
             retryable == \/ o.t = "resp" /\ ~(o.status < 500)
                          \/ o.t = "doErr" /\ o.cause = "ConnectException"
         IN  IF retryable /\ mayRetry(attempt, retryConfig)
             THEN \E delay \in calculateDelay(attempt + 1, retryConfig) :
                     IF delay > 0
                     THEN /\ pc' = "sleep"
                          /\ log' = Append(lg, <<"sleep", attempt + 1, delay>>)
                          /\ UNCHANGED <<attempt, result>>
                     ELSE /\ pc' = "inflight"
                          /\ attempt' = attempt + 1
                          /\ log' = Append(lg, <<"send", attempt + 1>>)
                          /\ UNCHANGED result
             ELSE /\ pc' = "done"
                  /\ result' = requestEnds(o)
                  /\ log' = lg
                  /\ UNCHANGED attempt
    /\ UNCHANGED <<given, probe, others, ctxDone, lastErr, prepared, sent>>

\* usleep returns and retry calls the handler again with attempt + 1
retry_Wake ==
    /\ lang = "php"
    /\ pc = "sleep"
    /\ pc' = "inflight"
    /\ attempt' = attempt + 1
    /\ log' = Append(Append(log, <<"wake", attempt + 1>>), <<"send", attempt + 1>>)
    /\ UNCHANGED <<given, probe, others, ctxDone, lastErr, result, prepared, sent>>

InitPhp ==
    /\ lang = "php"
    /\ retryConfig \in PhpConfigs
    /\ defaultNamespace = null
    /\ namespace = null
    /\ body = "json"
    /\ urlOK = TRUE
    /\ responseType = "none"
    /\ NotStarted

NextPhp ==
    \/ request_Call
    \/ retry_Settled
    \/ retry_Wake

SpecPhp == InitPhp /\ [][NextPhp]_vars

\* the delay fields of a RetryConfig: negative, zero, small and large
PhpDelayFields == {-100, 0, 1, 100, 1000, 2000, 10000}

\* largest retry number calculateDelay is evaluated at
MaxRetryNumber == 5

InitPhpDelay ==
    /\ lang = "php"
    /\ retryConfig \in {[maxRetries |-> 3, baseDelayMs |-> b, maxDelayMs |-> x] :
                            b \in PhpDelayFields, x \in PhpDelayFields}
    /\ defaultNamespace = null
    /\ namespace = null
    /\ body = "json"
    /\ urlOK = TRUE
    /\ responseType = "none"
    /\ ctxDone = FALSE
    /\ pc = "delay"
    /\ attempt = 0
    /\ lastErr = Nil
    /\ result = NotReturned
    /\ prepared = Nil
    /\ sent = << >>
    /\ log = << >>
    /\ delayAttempt = -1
    /\ delayOut = -1
    /\ OthersIdle

\* calculateDelay(n) is called, once in a behaviour: it reads nothing but
\* its argument and the configuration
calculateDelay_Call ==
    /\ pc = "delay"
    /\ delayAttempt = -1
    /\ \E n \in 1 .. MaxRetryNumber :
         /\ delayAttempt' = n
         /\ delayOut' \in calculateDelay(n, retryConfig)
    /\ UNCHANGED <<given, single, others>>

SpecPhpDelay == InitPhpDelay /\ [][calculateDelay_Call]_vars

----------------------------------------------------------------------------
(* The retry executor: one call of one client *)

Init == InitGo \/ InitGoNamespace \/ InitJava \/ InitJavaNamespace

Next ==
    \/ doRequest_Call
    \/ doRequest_Do
    \/ doRequest_TimerFires
    \/ doRequest_CtxDone
    \/ Cancel
    \/ executeWithRetry_Call
    \/ executeWithRetry_Sleep
    \/ executeWithRetry_Interrupted
    \/ executeWithRetry_Execute

Spec == Init /\ [][Next]_vars

\* One call of the Go client in an environment that keeps its promises:
\* the caller makes the call, every round trip ends, and every backoff
\* ends by its timer or by the cancelled context.  Cancelling stays the
\* caller's choice.
NextGo ==
    \/ doRequest_Call
    \/ doRequest_Do
    \/ doRequest_TimerFires
    \/ doRequest_CtxDone
    \/ Cancel

\* every step of a call moves pc or adds to the history
progress == <<pc, Len(log)>>

SpecGoFair ==
    /\ InitGo
    /\ [][NextGo]_vars
    /\ WF_progress(doRequest_Call)
    /\ WF_progress(doRequest_Do)
    /\ WF_progress(doRequest_TimerFires)
    /\ WF_progress(doRequest_CtxDone)

----------------------------------------------------------------------------
(* The backoff function of the Go client, called directly *)

\* the delay fields callers configure: unset, negative, small and large
DelayFields == {-1, 0, 1, 3, 100, 250, 1000}

InitDelay ==
    /\ lang = "go"
    /\ \E b \in DelayFields, x \in DelayFields :
         LET c == NewClient([Retry |-> [MaxRetries |-> 0, BaseDelayMs |-> b, MaxDelayMs |-> x],
                            DefaultNamespace |-> ""])
         IN  retryConfig = c.retryConfig /\ defaultNamespace = c.defaultNamespace
    /\ namespace = ""
    /\ body = "json"
    /\ urlOK = TRUE
    /\ responseType = "none"
    /\ ctxDone = FALSE
    /\ pc = "delay"
    /\ attempt = 0
    /\ lastErr = Nil
    /\ result = NotReturned
    /\ prepared = Nil
    /\ sent = << >>
    /\ log = << >>
    /\ delayAttempt = -1
    /\ delayOut = -1
    /\ OthersIdle

\* c.retryDelay(k) is called
retryDelay_Call ==
    /\ pc = "delay"
    /\ \E k \in 0 .. MaxAttemptIndex :
         /\ delayAttempt' = k
         /\ delayOut' = retryDelay(retryConfig, k)
    /\ UNCHANGED <<given, ctxDone, pc, attempt, lastErr, result, prepared, sent, log, others>>

SpecDelay == InitDelay /\ [][retryDelay_Call]_vars

----------------------------------------------------------------------------
(* The backoff function of the Java client, called directly *)

\* largest maxRetries of a RetryConfig whose delays are computed
MaxJavaRetries == 70

\* base and maximum delays, Duration.toMillis() of each
JavaBaseDelays == {1, 100, 1000}

JavaMaxDelays == {250, 5000, 60000}

InitJavaDelay ==
    /\ lang = "java"
    /\ retryConfig \in {[maxRetries |-> MaxJavaRetries, baseDelay |-> b, maxDelay |-> x] :
                            b \in JavaBaseDelays, x \in JavaMaxDelays}
    /\ defaultNamespace = null
    /\ namespace = null
    /\ body = "json"
    /\ urlOK = TRUE
    /\ responseType = "typed"
    /\ ctxDone = FALSE
    /\ pc = "delay"
    /\ attempt = 0
    /\ lastErr = Nil
    /\ result = NotReturned
    /\ prepared = Nil
    /\ sent = << >>
    /\ log = << >>
    /\ delayAttempt = -1
    /\ delayOut = -1
    /\ OthersIdle

\* executeWithRetry computes the delay it sleeps before attempt k + 1
computeRetryDelay_Call ==
    /\ pc = "delay"
    /\ \E k \in 0 .. retryConfig.maxRetries - 1 :
         /\ delayAttempt' = k
         /\ delayOut' = computeRetryDelay(k, retryConfig)
    /\ UNCHANGED <<given, single, others>>

SpecJavaDelay == InitJavaDelay /\ [][computeRetryDelay_Call]_vars

----------------------------------------------------------------------------
(* Concurrent calls of one shared Go client *)

\* the number of goroutines that call doRequest on the shared client
NumCalls == 2

CallIds == 1 .. NumCalls

\* the MaxRetries of the shared client
SharedMaxRetries == {1, 2}

\* what the transport answers a call with while its context is live
SharedOutcomes == {Resp(200, "text"), Resp(404, "text"), Resp(503, "text"), DoErr("net")}

\* a goroutine about to call doRequest: its locals (pc, attempt, lastErr),
\* its context, what it returned, and its history: the outcomes of its round
\* trips, where its context was cancelled, the round trips it started and
\* the delays it slept
NewCall ==
    [pc |-> "start", attempt |-> 0, lastErr |-> Nil, result |-> NotReturned,
     ctxDone |-> FALSE, outs |-> << >>, cancelledAt |-> << >>, sends |-> 0, delays |-> << >>]

attemptOfFirstCall(id) == calls[1].attempt

\* the loop variable attempt of call id: a local of its goroutine
attemptOf(id) == calls[id].attempt

\* one pass from the head of the for loop of call c, at attempt index k, to
\* the call of httpClient.Do
SharedIterate(c, k) ==
    IF k < maxAttempts(retryConfig)
    THEN [c EXCEPT !.pc = "inflight", !.attempt = k, !.sends = @ + 1]
    ELSE [c EXCEPT !.pc = "done", !.attempt = k,
                   !.result = ReturnErr(UcotronRetriesExhaustedError(
                                  maxAttempts(retryConfig), c.lastErr))]

\* a retryable failure err of attempt k of call c
SharedRetryable(c, k, err) ==
    IF backoff(k, maxAttempts(retryConfig))
    THEN [c EXCEPT !.lastErr = err, !.pc = "select",
                   !.delays = Append(@, retryDelay(retryConfig, k))]
    ELSE [c EXCEPT !.lastErr = err, !.pc = "done", !.attempt = k + 1,
                   !.result = ReturnErr(UcotronRetriesExhaustedError(
                                  maxAttempts(retryConfig), err))]

\* httpClient.Do of attempt k of call c returns with outcome o
SharedAnswer(call, k, o) ==
    LET c == [call EXCEPT !.outs = Append(@, o)]
    IN  CASE o.t = "doErr" ->
               SharedRetryable(c, k, UcotronConnectionError("request failed", o.cause))
          [] o.t = "resp" /\ IsSuccess(o.status) ->
               [c EXCEPT !.pc = "done", !.result = ReturnBody(o.body)]
          [] o.t = "resp" /\ ~IsSuccess(o.status) /\ IsClientError(o.status) ->
               [c EXCEPT !.pc = "done",
                         !.result = ReturnErr(parseServerError(o.status, o.body))]
          [] OTHER ->
               SharedRetryable(c, k, parseServerError(o.status, o.body))

\* goroutine id calls doRequest
Shared_Call(id) ==
    /\ calls[id].pc = "start"
    /\ calls' = [calls EXCEPT ![id] = SharedIterate(@, 0)]
    /\ UNCHANGED <<given, single, probe, worker>>

\* httpClient.Do of call id returns with outcome o
Shared_Do(id) ==
    /\ calls[id].pc = "inflight"
    /\ \E o \in (IF calls[id].ctxDone THEN {DoErr("ctx")} ELSE SharedOutcomes) :
         calls' = [calls EXCEPT ![id] = SharedAnswer(@, attemptOf(id), o)]
    /\ UNCHANGED <<given, single, probe, worker>>

\* the backoff timer of call id fires while its context is live
Shared_TimerFires(id) ==
    /\ calls[id].pc = "select"
    /\ ~calls[id].ctxDone
    /\ calls' = [calls EXCEPT ![id] = SharedIterate(@, attemptOf(id) + 1)]
    /\ UNCHANGED <<given, single, probe, worker>>

\* call id, waiting in the select, finds its context done
Shared_CtxDone(id) ==
    /\ calls[id].pc = "select"
    /\ calls[id].ctxDone
    /\ calls' = [calls EXCEPT ![id].pc = "done", ![id].result = ReturnErr(CtxErr)]
    /\ UNCHANGED <<given, single, probe, worker>>

\* the context of call id is cancelled
Shared_Cancel(id) ==
    /\ calls[id].pc # "done"
    /\ ~calls[id].ctxDone
    /\ calls' = [calls EXCEPT ![id].ctxDone = TRUE,
                              ![id].cancelledAt = <<calls[id].pc, Len(calls[id].outs)>>]
    /\ UNCHANGED <<given, single, probe, worker>>

\* one client, built by NewClient, and NumCalls goroutines about to call it
InitShared ==
    /\ lang = "go"
    /\ \E m \in SharedMaxRetries :
         LET c == NewClient([Retry |-> [MaxRetries |-> m, BaseDelayMs |-> 100,
                                        MaxDelayMs |-> 250],
                            DefaultNamespace |-> ""])
         IN  retryConfig = c.retryConfig /\ defaultNamespace = c.defaultNamespace
    /\ namespace = ""
    /\ body = "json"
    /\ urlOK = TRUE
    /\ responseType = "none"
    /\ ctxDone = FALSE
    /\ pc = "shared"
    /\ attempt = 0
    /\ lastErr = Nil
    /\ result = NotReturned
    /\ prepared = Nil
    /\ sent = << >>
    /\ log = << >>
    /\ delayAttempt = -1
    /\ delayOut = -1
    /\ calls = [id \in CallIds |-> NewCall]
    /\ SyncIdle

NextShared ==
    \E id \in CallIds :
        \/ Shared_Call(id)
        \/ Shared_Do(id)
        \/ Shared_TimerFires(id)
        \/ Shared_CtxDone(id)
        \/ Shared_Cancel(id)

SpecShared == InitShared /\ [][NextShared]_vars

----------------------------------------------------------------------------
(* The Go loop and the Java loop, given the same policy and the same outcomes *)

\* largest maxRetries of a policy both loops are run with
MaxPairRetries == 58

\* the policies: those with few retries, and one with many
PairPolicies ==
    {[MaxRetries |-> m, BaseDelayMs |-> 100, MaxDelayMs |-> 250] : m \in 0 .. 2}
    \cup {[MaxRetries |-> MaxPairRetries, BaseDelayMs |-> 100, MaxDelayMs |-> 5000]}

\* what the attempts of a policy end in: a 2xx, a 4xx, a 5xx answer or a
\* transport failure in any order for the policies with few retries; for
\* the one with many, 5xx answers and then perhaps a 2xx
PairOutcomes(cfg) ==
    IF cfg.MaxRetries <= 2 THEN SharedOutcomes ELSE {Resp(503, "text"), Resp(200, "text")}

\* the RetryConfig of the Java client with the fields of the Go policy
javaPolicy(cfg) ==
    [maxRetries |-> cfg.MaxRetries, baseDelay |-> cfg.BaseDelayMs, maxDelay |-> cfg.MaxDelayMs]

\* executeWithRetry, the head of the for loop of call c at attempt index k:
\* the loop test, the delay before a retry, whose Thread.sleep rejects a
\* negative value, and the start of the round trip
JavaIterate(c, k, cfg) ==
    IF k <= cfg.maxRetries
    THEN IF k > 0
         THEN LET delay == computeRetryDelay(k - 1, cfg)
              IN  IF lessThan(delay, toLong(0))
                  THEN [c EXCEPT !.pc = "done", !.attempt = k,
                                 !.result = ReturnErr(IllegalArgumentException)]
                  ELSE [c EXCEPT !.pc = "inflight", !.attempt = k, !.sends = @ + 1,
                                 !.delays = Append(@, delay)]
         ELSE [c EXCEPT !.pc = "inflight", !.attempt = k, !.sends = @ + 1]
    ELSE [c EXCEPT !.pc = "done", !.attempt = k,
                   !.result = ReturnErr(UcotronRetriesExhaustedException(
                                  cfg.maxRetries + 1, c.lastErr))]

\* executeWithRetry, the round trip of attempt k of call c ends in o: a 4xx
\* is thrown, a 5xx and an IOException are kept as lastException and the
\* loop goes on, everything else is returned
JavaAnswer(call, k, o, cfg) ==
    LET c == [call EXCEPT !.outs = Append(@, o)]
    IN  CASE o.t = "doErr" ->
               JavaIterate([c EXCEPT !.lastErr = UcotronConnectionException(o.cause)],
                           k + 1, cfg)
          [] o.t = "resp" /\ o.status >= 400 /\ o.status < 500 ->
               [c EXCEPT !.pc = "done",
                         !.result = ReturnErr(UcotronServerException(o.status, o.body))]
          [] o.t = "resp" /\ o.status >= 500 ->
               JavaIterate([c EXCEPT !.lastErr = UcotronServerException(o.status, o.body)],
                           k + 1, cfg)
          [] OTHER ->
               [c EXCEPT !.pc = "done", !.result = ReturnBody(o.body)]

\* doRequest, the round trip of attempt k of call c ends in o, and the
\* backoff that follows a retryable failure elapses
GoAnswer(call, k, o) ==
    LET c == SharedAnswer(call, k, o)
    IN  IF c.pc = "select" THEN SharedIterate(c, k + 1) ELSE c

\* both calls are made
Pair_Call ==
    /\ pc = "pair"
    /\ calls.go.pc = "start"
    /\ calls' = [go   |-> SharedIterate(calls.go, 0),
                 java |-> JavaIterate(calls.java, 0, javaPolicy(retryConfig))]
    /\ UNCHANGED <<given, single, probe, worker>>

\* the calls that still run are each at a round trip: both end in the same
\* outcome
Pair_Do ==
    /\ pc = "pair"
    /\ calls.go.pc = "inflight" \/ calls.java.pc = "inflight"
    /\ \E o \in PairOutcomes(retryConfig) :
         calls' = [go   |-> IF calls.go.pc = "inflight"
                            THEN GoAnswer(calls.go, calls.go.attempt, o)
                            ELSE calls.go,
                   java |-> IF calls.java.pc = "inflight"
                            THEN JavaAnswer(calls.java, calls.java.attempt, o,
                                            javaPolicy(retryConfig))
                            ELSE calls.java]
    /\ UNCHANGED <<given, single, probe, worker>>

InitPair ==
    /\ lang = "go+java"
    /\ retryConfig \in PairPolicies
    /\ defaultNamespace = "default"
    /\ namespace = ""
    /\ body = "json"
    /\ urlOK = TRUE
    /\ responseType = "typed"
    /\ ctxDone = FALSE
    /\ pc = "pair"
    /\ attempt = 0
    /\ lastErr = Nil
    /\ result = NotReturned
    /\ prepared = Nil
    /\ sent = << >>
    /\ log = << >>
    /\ delayAttempt = -1
    /\ delayOut = -1
    /\ calls = [go |-> NewCall, java |-> NewCall]
    /\ SyncIdle

NextPair == Pair_Call \/ Pair_Do

SpecPair == InitPair /\ [][NextPair]_vars

----------------------------------------------------------------------------
(* Android sync worker: UcotronSyncWorker.doSync *)

\* A string the worker builds or searches is kept as the sequence of the
\* pieces it was concatenated from.

\* longest list of pending items doSync is called with
MaxPending == 2

\* PendingMemory.text of the items: one that names no search word of doSync
\* and one that contains "connection"; both are shorter than 50 characters
Texts == {"good item", "lost connection"}

PendingMemory(text) == [text |-> text]

\* the lists doSync is called with: items of one text, and the two lists of
\* two items with different texts
PendingLists ==
    {[i \in 1 .. n |-> PendingMemory(t)] : n \in 0 .. MaxPending, t \in Texts}
    \cup {<<PendingMemory("good item"), PendingMemory("lost connection")>>,
          <<PendingMemory("lost connection"), PendingMemory("good item")>>}

\* SyncConfig(batchSize, maxRetries): a data class that checks nothing
SyncConfigs ==
    {[batchSize |-> b, maxRetries |-> m] : b \in {-1, 0, 1, 50}, m \in {-1, 0, 1, 2}}

\* the callback given to the worker: none, or one whose onSyncStart answers
\* true or false and whose onItemSynced returns or throws
Callbacks ==
    {Nil} \cup {[onSyncStart |-> b, onItemSynced |-> t] :
                    b \in BOOLEAN, t \in {"returns", "throws"}}

\* what an onItemSynced that fails throws
CallbackException == [kind |-> "IllegalStateException"]

\* thrown by the suspending calls when the coroutine is cancelled
CancellationException == [kind |-> "CancellationException"]

\* UcotronException(message), the base class, as syncItemWithRetry builds it
UcotronException(message) == [kind |-> "UcotronException", message |-> message]

\* what client.addMemory throws into syncItemWithRetry: executeWithRetry's
\* 4xx exception, its exhausted retries after a 5xx answer or after a
\* connection failure, its interrupted backoff, and gson's unchecked
\* JsonSyntaxException
AddMemoryExceptions ==
    { UcotronServerException(404, "text"),
      UcotronRetriesExhaustedException(1, UcotronServerException(500, "text")),
      UcotronRetriesExhaustedException(1, UcotronConnectionException("net")),
      UcotronConnectionException("InterruptedException"),
      JsonSyntaxException }

\* e is UcotronException
isUcotronException(e) ==
    e.kind \in {"UcotronException", "UcotronServerException",
                "UcotronConnectionException", "UcotronRetriesExhaustedException"}

\* Throwable.getMessage(), as the constructors of the exception classes set it
getMessage(e) ==
    CASE e.kind = "UcotronServerException" ->
             <<"HTTP ", ToString(e.statusCode), ": ", e.message>>
      [] e.kind = "UcotronRetriesExhaustedException" ->
             <<"All ", ToString(e.attempts), " retry attempts exhausted">>
      [] e.kind = "UcotronConnectionException" ->
             IF e.cause = "InterruptedException"
             THEN <<"Interrupted during retry delay">>
             ELSE <<"Connection refused">>
      [] e.kind = "UcotronException" -> e.message
      [] e.kind = "JsonSyntaxException" -> <<"Expected BEGIN_OBJECT but was STRING">>
      [] OTHER -> <<"callback failed">>

\* the numbers that are written into a string: statuses and small counts
Decimals == Statuses \cup (0 .. 9)

isDecimal(piece) == \E n \in Decimals : ToString(n) = piece

valueOf(piece) == CHOOSE n \in Decimals : ToString(n) = piece

\* the strings doSync and syncItemWithRetry search for that occur in a
\* piece, ignoring case
occurringIn(piece) ==
    (IF piece \in {"lost connection", "Connection refused"} THEN {"connection"} ELSE {})
    \cup (IF isDecimal(piece) /\ \E d \in {1, 10, 100} : (valueOf(piece) \div d) % 10 = 4
          THEN {"4"} ELSE {})
    \cup (IF piece \in {": ", "': "} THEN {":"} ELSE {})

\* String.contains(word, ignoreCase = true)
contains(str, word) == \E i \in DOMAIN str : word \in occurringIn(str[i])

\* String.substringBefore(delimiter): up to the first occurrence of the
\* delimiter, and the whole string if there is none
substringBefore(str, delimiter) ==
    IF contains(str, delimiter)
    THEN LET first == CHOOSE i \in DOMAIN str :
                          /\ delimiter \in occurringIn(str[i])
                          /\ \A j \in 1 .. i - 1 : delimiter \notin occurringIn(str[j])
         IN  SubSeq(str, 1, first - 1)
    ELSE str

\* String.trim(): without the white space at both ends
trim(str) ==
    LET solid == {i \in DOMAIN str : str[i] # " "}
    IN  IF solid = {} THEN << >>
        ELSE SubSeq(str, CHOOSE i \in solid : \A j \in solid : i <= j,
                         CHOOSE i \in solid : \A j \in solid : i >= j)

\* String.toIntOrNull(): the number if the string is a decimal number and
\* nothing else, and null, written -1 here, if it is not
toIntOrNull(str) ==
    IF Len(str) = 1 /\ isDecimal(str[1]) THEN valueOf(str[1]) ELSE -1

\* text.take(50): the texts of the model are shorter
take50(text) == text

\* pendingItems.take(config.batchSize), for a batch size that is not negative
take(list, n) == SubSeq(list, 1, IF n < Len(list) THEN n ELSE Len(list))

\* doSync's local batch
batch == take(pendingItems, syncConfig.batchSize)

\* the entry doSync adds to errors for an item that failed with e
errorMsg(item, e) == <<"Failed to sync item '", take50(item.text), "': ">> \o getMessage(e)

SyncResult(status, itemsSynced, errs) ==
    [status |-> status, itemsSynced |-> itemsSynced, errors |-> errs]

syncStatusAnySynced(syn, size, errs) ==
    IF syn > 0 THEN "SUCCESS" ELSE "FAILURE"

\* the when expression that picks the status of a processed batch
syncStatus(syn, size, errs) ==
    IF syn = size THEN "SUCCESS"
    ELSE IF syn > 0 THEN "PARTIAL"
    ELSE IF \A i \in DOMAIN errs :
                contains(errs[i], "connection") \/ contains(errs[i], "timeout")
         THEN "RETRY"
         ELSE "FAILURE"

\* the test of syncItemWithRetry for a client error that is not retried: the
\* status code is read back from the message of the exception, null giving 0
isClientError(e) ==
    /\ contains(getMessage(e), "4")
    /\ e.kind = "UcotronServerException"
    /\ LET parsed == toIntOrNull(trim(substringBefore(getMessage(e), ":")))
           statusCode == IF parsed = -1 THEN 0 ELSE parsed
       IN  statusCode \in 400 .. 499

\* the backoff of syncItemWithRetry: (1L shl attempt) * 200
syncDelay(k) == 2^k * 200

\* the for loop is through: the status is chosen, onSyncComplete is told and
\* doSync returns
complete(i, syn, errs, lg) ==
    LET r == SyncResult(syncStatus(syn, Len(batch), errs), syn, errs)
    IN  /\ pc' = "done"
        /\ result' = ReturnBody(r)
        /\ synced' = syn
        /\ errors' = errs
        /\ log' = IF callback # Nil THEN Append(lg, <<"onSyncComplete", r>>) ELSE lg
        /\ cursor' = i
        /\ UNCHANGED <<attempt, lastErr>>

\* item i of the batch is dealt with: the loop goes on to the next item, whose
\* first addMemory call it makes, or ends
nextItem(i, syn, errs, lg) ==
    IF i = Len(batch)
    THEN complete(i, syn, errs, lg)
    ELSE /\ pc' = "addMemory"
         /\ cursor' = i + 1
         /\ attempt' = 0
         /\ lastErr' = Nil
         /\ synced' = syn
         /\ errors' = errs
         /\ log' = Append(lg, <<"addMemory", i + 1, 0>>)
         /\ UNCHANGED result

\* the catch clause of doSync for an item that failed with e
itemFailed(i, e, syn, errs, lg) ==
    nextItem(i, syn, Append(errs, errorMsg(batch[i], e)),
             IF callback # Nil THEN Append(lg, <<"onItemFailed", i>>) ELSE lg)

\* what syncItemWithRetry throws when its loop has no pass
noPass == UcotronException(<<"Sync failed after ", ToString(syncConfig.maxRetries), " retries">>)

\* doSync is called.  A callback may skip the run; an empty list succeeds at
\* once; take throws for a negative batch size; with maxRetries <= 0 the
\* loop of syncItemWithRetry has no pass and every item fails with the
\* exception built after it; else the first addMemory call is made
doSync_Call ==
    /\ lang = "kotlin"
    /\ pc = "start"
    /\ UNCHANGED <<given, probe, ctxDone, prepared, sent, calls, syncConfig, callback,
                   pendingItems>>
    /\ IF callback # Nil /\ ~callback.onSyncStart
       THEN /\ pc' = "done"
            /\ result' = ReturnBody(SyncResult("SKIPPED", 0, << >>))
            /\ log' = Append(log, <<"onSyncStart", FALSE>>)
            /\ UNCHANGED <<cursor, synced, errors, attempt, lastErr>>
       ELSE LET lg == IF callback # Nil THEN Append(log, <<"onSyncStart", TRUE>>) ELSE log
            IN  IF pendingItems = << >>
                THEN LET r == SyncResult("SUCCESS", 0, << >>)
                     IN  /\ pc' = "done"
                         /\ result' = ReturnBody(r)
                         /\ log' = IF callback # Nil
                                   THEN Append(lg, <<"onSyncComplete", r>>) ELSE lg
                         /\ UNCHANGED <<cursor, synced, errors, attempt, lastErr>>
                ELSE IF syncConfig.batchSize < 0
                THEN /\ pc' = "done"
                     /\ result' = ReturnErr(IllegalArgumentException)
                     /\ log' = lg
                     /\ UNCHANGED <<cursor, synced, errors, attempt, lastErr>>
                ELSE IF batch = << >>
                THEN complete(0, 0, << >>, lg)
                ELSE IF syncConfig.maxRetries <= 0
                THEN complete(Len(batch), 0,
                              [i \in 1 .. Len(batch) |-> errorMsg(batch[i], noPass)],
                              IF callback # Nil
                              THEN lg \o [i \in 1 .. Len(batch) |-> <<"onItemFailed", i>>]
                              ELSE lg)
                ELSE nextItem(0, 0, << >>, lg)

\* client.addMemory returns for the item the loop is at: the item counts as
\* synced, then onItemSynced is told; what onItemSynced throws is caught by
\* the catch clause of doSync like a failure of the item
addMemory_Returns ==
    /\ lang = "kotlin"
    /\ pc = "addMemory"
    /\ UNCHANGED <<given, probe, ctxDone, prepared, sent, calls, syncConfig, callback,
                   pendingItems>>
    /\ LET lg == Append(log, <<"returned", cursor, attempt>>)
       IN  IF callback = Nil
           THEN nextItem(cursor, synced + 1, errors, lg)
           ELSE IF callback.onItemSynced = "returns"
           THEN nextItem(cursor, synced + 1, errors, Append(lg, <<"onItemSynced", cursor>>))
           ELSE itemFailed(cursor, CallbackException, synced + 1, errors,
                           Append(lg, <<"onItemSynced", cursor>>))

\* client.addMemory throws e for the item the loop is at.  A client error
\* that the test recognises is rethrown; before the last pass the loop
\* delays; after the last pass lastException is thrown
addMemory_Throws ==
    /\ lang = "kotlin"
    /\ pc = "addMemory"
    /\ UNCHANGED <<given, probe, ctxDone, prepared, sent, calls, syncConfig, callback,
                   pendingItems>>
    /\ \E e \in AddMemoryExceptions :
         LET lg == Append(log, <<"threw", cursor, attempt, e>>)
         IN  IF isUcotronException(e) /\ isClientError(e)
             THEN itemFailed(cursor, e, synced, errors, lg)
             ELSE IF attempt < syncConfig.maxRetries - 1
             THEN /\ pc' = "delay"
                  /\ lastErr' = e
                  /\ log' = Append(lg, <<"delay", syncDelay(attempt)>>)
                  /\ UNCHANGED <<attempt, result, cursor, synced, errors>>
             ELSE itemFailed(cursor, e, synced, errors, lg)

\* the delay is over: the next pass of the loop calls client.addMemory again
delay_Resumes ==
    /\ lang = "kotlin"
    /\ pc = "delay"
    /\ pc' = "addMemory"
    /\ attempt' = attempt + 1
    /\ log' = Append(log, <<"addMemory", cursor, attempt + 1>>)
    /\ UNCHANGED <<given, probe, others, ctxDone, lastErr, result, prepared, sent>>

\* the coroutine is cancelled while it is suspended in addMemory or in delay:
\* the CancellationException passes through both catch clauses and doSync
\* throws it
doSync_Cancelled ==
    /\ lang = "kotlin"
    /\ pc \in {"addMemory", "delay"}
    /\ pc' = "done"
    /\ result' = ReturnErr(CancellationException)
    /\ log' = Append(log, <<"cancel", pc>>)
    /\ UNCHANGED <<given, probe, others, ctxDone, attempt, lastErr, prepared, sent>>

InitSync ==
    /\ lang = "kotlin"
    /\ retryConfig = Nil
    /\ defaultNamespace = null
    /\ namespace = null
    /\ body = "json"
    /\ urlOK = TRUE
    /\ responseType = "typed"
    /\ calls = << >>
    /\ syncConfig \in SyncConfigs
    /\ callback \in Callbacks
    /\ pendingItems \in PendingLists
    /\ cursor = 0
    /\ synced = 0
    /\ errors = << >>
    /\ ctxDone = FALSE
    /\ pc = "start"
    /\ attempt = 0
    /\ lastErr = Nil
    /\ result = NotReturned
    /\ prepared = Nil
    /\ sent = << >>
    /\ log = << >>
    /\ delayAttempt = -1
    /\ delayOut = -1

NextSync ==
    \/ doSync_Call
    \/ addMemory_Returns
    \/ addMemory_Throws
    \/ delay_Resumes
    \/ doSync_Cancelled

SpecSync == InitSync /\ [][NextSync]_vars

----------------------------------------------------------------------------
(* Reading the history *)

Events(tag) == SelectSeq(log, LAMBDA e : e[1] = tag)

\* round trips started so far
Sends == Len(Events("send"))

\* Outcome(i): what the i-th round trip (1-based) ended in
Received == Len(Events("recv"))

Outcome(i) == Events("recv")[i][3]

Sleeps == Events("sleep")

Is2xx(o) == o.t = "resp" /\ o.status \in 200 .. 299

Is4xx(o) == o.t = "resp" /\ o.status \in 400 .. 499

Is5xx(o) == o.t = "resp" /\ o.status \in 500 .. 599

IsTransportFailure(o) == o.t \in {"doErr", "readErr"}

Returned(e) == pc = "done" /\ result.returned /\ result.err = e

----------------------------------------------------------------------------
(* Claims *)

\* C1: in doRequest with maxRetries = N >= 0, a call (its context live) whose
\* every attempt receives a 5xx response makes exactly N+1 transport attempts
\* and returns UcotronRetriesExhaustedError with Attempts = N+1.
C1_Always5xxExhausts ==
    (/\ lang = "go"
     /\ ~ctxDone
     /\ Received >= 1
     /\ \A i \in 1 .. Received : Is5xx(Outcome(i)))
    => /\ Sends <= retryConfig.MaxRetries + 1
       /\ pc = "done" =>
            /\ Sends = retryConfig.MaxRetries + 1
            /\ result.returned
            /\ result.err.kind = "UcotronRetriesExhaustedError"
            /\ result.err.Attempts = retryConfig.MaxRetries + 1

C1_Witness ==
    /\ lang = "go"
    /\ pc = "done"
    /\ ~ctxDone
    /\ retryConfig.MaxRetries = 2
    /\ Sends = 3
    /\ Received = 3
    /\ \A i \in 1 .. Received : Is5xx(Outcome(i))
    /\ result.err.kind = "UcotronRetriesExhaustedError"
    /\ result.err.Attempts = 3

\* C2: in doRequest, when the first response is a 4xx, then whatever
\* maxRetries is, exactly one transport attempt is made, no backoff sleep is
\* taken, and the call has returned a UcotronServerError carrying the status
\* of that response.
C2_First4xxFailsAtOnce ==
    (lang = "go" /\ Received >= 1 /\ Is4xx(Outcome(1)))
    => /\ pc = "done"
       /\ Sends = 1
       /\ Received = 1
       /\ Sleeps = << >>
       /\ result.returned
       /\ result.err.kind = "UcotronServerError"
       /\ result.err.StatusCode = Outcome(1).status

C2_Witness ==
    /\ lang = "go"
    /\ retryConfig.MaxRetries = 3
    /\ Received = 1
    /\ Outcome(1) = Resp(404, "json_msg")
    /\ Sends = 1
    /\ Returned(parseServerError(404, "json_msg"))

\* C3: in doRequest, when the first k >= 1 attempts each fail retryably (a 5xx
\* response or a transport failure) and attempt k+1 receives a 2xx response,
\* the call has made exactly k+1 transport attempts, does nothing after that
\* response, and has returned its body with a nil error.
C3_RetryThenSucceed ==
    (/\ lang = "go"
     /\ Received >= 2
     /\ \E k \in 1 .. Received - 1 :
          /\ \A i \in 1 .. k : Is5xx(Outcome(i)) \/ IsTransportFailure(Outcome(i))
          /\ Is2xx(Outcome(k + 1)))
    => /\ Is2xx(Outcome(Received))
       /\ Received - 1 <= retryConfig.MaxRetries
       /\ Sends = Received
       /\ log[Len(log)][1] = "recv"
       /\ pc = "done"
       /\ result = ReturnBody(Outcome(Received).body)

C3_Witness ==
    /\ lang = "go"
    /\ Received = 3
    /\ Is5xx(Outcome(1))
    /\ IsTransportFailure(Outcome(2))
    /\ Outcome(3) = Resp(200, "text")
    /\ Sends = 3
    /\ pc = "done"
    /\ result = ReturnBody("text")

ErrIsServerError(e, status) ==
    \/ e.kind = "UcotronServerError" /\ e.StatusCode = status
    \/ e.kind = "UcotronServerException" /\ e.statusCode = status

\* C4: in doRequest and in executeWithRetry, a 4xx response received on any
\* attempt (the first, a retry after 5xx or transport failures, the last one
\* allowed) ends the call at once with the server error of that status: it is
\* the last thing the call did, and the error is not wrapped.
C4_Any4xxEndsTheCall ==
    \A i \in 1 .. Received :
        Is4xx(Outcome(i)) =>
            /\ i = Received
            /\ Sends = Received
            /\ log[Len(log)] = <<"recv", i - 1, Outcome(i)>>
            /\ pc = "done"
            /\ result.returned
            /\ ErrIsServerError(result.err, Outcome(i).status)

C4_Witness ==
    /\ lang = "java"
    /\ retryConfig.maxRetries = 2
    /\ Received = 3
    /\ Is5xx(Outcome(1))
    /\ IsTransportFailure(Outcome(2))
    /\ Outcome(3) = Resp(400, "text")
    /\ Returned(UcotronServerException(400, "text"))

\* the context was cancelled while the call was at p
CancelledAt(p) == \E i \in 1 .. Len(log) : log[i] = <<"cancel", p>>

\* nothing was sent after the cancellation
NoSendAfterCancel ==
    \A i, j \in 1 .. Len(log) : (log[i][1] = "cancel" /\ log[j][1] = "send") => j < i

\* C5: in the Go client, when the context is cancelled while a round trip is
\* in flight, on whichever attempt, the request is not retried and the call
\* returns the cancellation error (not a UcotronConnectionError,
\* UcotronServerError or UcotronRetriesExhaustedError).
C5_CancelInFlight ==
    (lang = "go" /\ CancelledAt("inflight"))
    => /\ NoSendAfterCancel
       /\ pc = "done" => Returned(CtxErr)

\* C6: in the Go client, when the context is cancelled while doRequest sleeps
\* between attempts, the call does nothing but return the cancellation error:
\* no round trip starts after the cancellation.
C6_CancelWhileSleeping ==
    (lang = "go" /\ CancelledAt("select"))
    => /\ NoSendAfterCancel
       /\ log[Len(log)] = <<"cancel", "select">>
       /\ pc \in {"select", "done"}
       /\ pc = "done" => Returned(CtxErr)

C6_Witness ==
    /\ lang = "go"
    /\ CancelledAt("select")
    /\ Sends = 2
    /\ Len(Sleeps) = 2
    /\ Sends <= retryConfig.MaxRetries
    /\ Returned(CtxErr)

\* the error doRequest builds for a retryable outcome
ErrorOf(o) ==
    CASE o.t = "doErr" -> UcotronConnectionError("request failed", o.cause)
      [] o.t = "readErr" -> UcotronConnectionError("failed to read response body", o.cause)
      [] o.t = "resp" -> parseServerError(o.status, o.body)

C8_OnlyTaxonomyErrors ==
    (lang = "go" /\ pc = "done" /\ result.err # Nil)
    => result.err.kind \in {"UcotronServerError", "UcotronRetriesExhaustedError", "ctx.Err"}

\* C8 (amended): every error doRequest returns once a round trip was started
\* is a UcotronServerError, a UcotronRetriesExhaustedError or the
\* cancellation error; a UcotronConnectionError is returned only as the
\* LastError of a UcotronRetriesExhaustedError; the only other errors are the
\* wrapped errors of a body that cannot be marshalled and of a request that
\* cannot be built, returned before any round trip.
C8_TaxonomyOrRequestError ==
    (lang = "go" /\ pc = "done" /\ result.err # Nil)
    => /\ result.err.kind \in {"UcotronServerError", "UcotronRetriesExhaustedError",
                               "ctx.Err", "fmt.wrapError"}
       /\ result.err.kind = "fmt.wrapError" <=> (body = "unencodable" \/ ~urlOK)
       /\ result.err.kind = "fmt.wrapError" => Sends = 0
       /\ result.err.kind = "UcotronRetriesExhaustedError" =>
              result.err.LastError.kind \in {"UcotronServerError", "UcotronConnectionError"}

C8_Witness ==
    /\ lang = "go"
    /\ pc = "done"
    /\ Sends = 2
    /\ Outcome(2) = ReadErr("net")
    /\ result.err = UcotronRetriesExhaustedError(
                        2, UcotronConnectionError("failed to read response body", "net"))

\* C9: retryDelay(k) is min(BaseDelayMs * 2^k, MaxDelayMs) milliseconds for
\* every attempt index k >= 0; with BaseDelayMs = 100 and MaxDelayMs = 1000
\* it is 100, 200, 400 and 1000 for k = 0, 1, 2 and 4.
C9_DelayIsCappedExponential ==
    delayAttempt >= 0 =>
        LET exp == retryConfig.BaseDelayMs * 2^delayAttempt
            cap == retryConfig.MaxDelayMs
        IN  /\ delayOut \in {exp, cap}
            /\ delayOut <= exp
            /\ delayOut <= cap
            /\ (retryConfig.BaseDelayMs = 100 /\ cap = 1000) =>
                   /\ delayAttempt = 0 => delayOut = 100
                   /\ delayAttempt = 1 => delayOut = 200
                   /\ delayAttempt = 2 => delayOut = 400
                   /\ delayAttempt = 4 => delayOut = 1000

C9_Witness ==
    /\ retryConfig.BaseDelayMs = 100
    /\ retryConfig.MaxDelayMs = 1000
    /\ delayAttempt = 4
    /\ delayOut = 1000

\* what the call itself did: the history without the caller's cancellation
Steps == SelectSeq(log, LAMBDA e : e[1] # "cancel")

\* C10: within one doRequest call round trips and backoff sleeps alternate:
\* the call starts with attempt 0; a round trip is followed by its outcome; a
\* retryable failure of attempt k < maxRetries is followed by a sleep with
\* the delay computed for k; attempt k+1 starts only after that sleep has
\* elapsed; nothing, and so no sleep, follows the outcome of attempt
\* maxRetries.
C10_AttemptsAndSleepsAlternate ==
    lang = "go" =>
      /\ Steps # << >> => Steps[1] = <<"send", 0>>
      /\ \A j \in 1 .. Len(Steps) :
           LET e == Steps[j]
               last == j = Len(Steps)
           IN  /\ e[1] = "send" =>
                     /\ e[2] <= retryConfig.MaxRetries
                     /\ ~last => Steps[j + 1][1] = "recv" /\ Steps[j + 1][2] = e[2]
               /\ e[1] = "recv" =>
                     IF /\ ~Is2xx(e[3])
                        /\ ~Is4xx(e[3])
                        /\ e[2] < retryConfig.MaxRetries
                     THEN /\ ~last
                          /\ Steps[j + 1] = <<"sleep", e[2], retryDelay(retryConfig, e[2])>>
                     ELSE last
               /\ e[1] = "sleep" =>
                     /\ e[2] < retryConfig.MaxRetries
                     /\ ~last => Steps[j + 1] = <<"wake", e[2]>>
               /\ e[1] = "wake" =>
                     /\ ~last
                     /\ Steps[j + 1] = <<"send", e[2] + 1>>

C10_Witness ==
    /\ lang = "go"
    /\ retryConfig.MaxRetries = 2
    /\ pc = "done"
    /\ Len(Steps) = 10
    /\ Steps[3] = <<"sleep", 0, 100>>
    /\ Steps[7] = <<"sleep", 1, 200>>
    /\ Steps[10][1] = "recv"
    /\ result.err.kind = "UcotronRetriesExhaustedError"

\* a default namespace was configured: no configuration of the model names
\* "default" itself, so the client's default differs from it exactly then
DefaultConfigured == defaultNamespace # "default"

\* C11 as stated: on every outgoing request of the Go client the header
\* X-Ucotron-Namespace equals the per-call override when one is supplied,
\* else the configured default namespace, and is absent when neither an
\* override nor a default namespace was configured.
C11_HeaderAbsentWhenUnset ==
    lang = "go" =>
        \A i \in 1 .. Len(sent) :
            sent[i].nsHeader = IF namespace # "" THEN namespace
                               ELSE IF DefaultConfigured THEN defaultNamespace
                               ELSE absent

\* C11 (amended): on every outgoing request of the Go client the header
\* X-Ucotron-Namespace is present; it equals the per-call override when one
\* is supplied, else the client's default namespace, which is the configured
\* one, or "default" when none was configured.
C11_HeaderIsOverrideElseDefault ==
    lang = "go" =>
        \A i \in 1 .. Len(sent) :
            /\ sent[i].nsHeader # absent
            /\ sent[i].nsHeader # ""
            /\ sent[i].nsHeader = IF namespace # "" THEN namespace ELSE defaultNamespace
            /\ (namespace = "" /\ ~DefaultConfigured) => sent[i].nsHeader = "default"

C11_Witness ==
    /\ lang = "go"
    /\ namespace = ""
    /\ ~DefaultConfigured
    /\ Len(sent) = 2
    /\ sent[2].nsHeader = "default"

\* C12: the namespace is resolved once per call, before the first attempt;
\* every transport attempt of a call, the first and all retries, carries the
\* method, URL, namespace header value and body of the first attempt, in
\* doRequest and in executeWithRetry.
C12_EveryAttemptSameRequest ==
    /\ Len(sent) = Sends
    /\ pc = "start" => sent = << >>
    /\ \A i \in 1 .. Len(sent) :
           /\ sent[i] = sent[1]
           /\ sent[i].nsHeader = IF lang = "go" THEN prepared ELSE prepared.nsHeader
           /\ sent[i].nsHeader =
                  IF lang = "go"
                  THEN (IF namespace # "" THEN namespace ELSE defaultNamespace)
                  ELSE (IF namespace # null THEN namespace
                        ELSE IF defaultNamespace # null THEN defaultNamespace ELSE absent)

C12_Witness ==
    /\ lang = "go"
    /\ namespace = "ns1"
    /\ defaultNamespace = "tenant"
    /\ Len(sent) = 3
    /\ \A i \in 1 .. 3 : sent[i].nsHeader = "ns1"

C12_WitnessJava ==
    /\ lang = "java"
    /\ namespace = null
    /\ defaultNamespace = null
    /\ Len(sent) = 3
    /\ \A i \in 1 .. 3 : sent[i].nsHeader = absent

\* what call id was given from outside: the outcomes of its own round trips
\* and where in its own history its context was cancelled
Inputs(id) == <<calls[id].outs, calls[id].cancelledAt>>

\* what call id did: its round trips, its backoff delays, its result
Observed(id) == <<calls[id].sends, calls[id].delays, calls[id].result>>

\* C13: of the calls that run concurrently on one shared client, each one's
\* number of transport attempts, backoff delays and result are determined by
\* its own attempt outcomes and its own cancellation alone: finished calls
\* with equal inputs did the same, and a finished call that was not
\* cancelled made one round trip per outcome it received, slept the delays
\* of its own attempt indexes, and returned what its own last outcome
\* demands; no step writes the retry configuration or the default namespace.
C13_CallsDoNotInterfere ==
    /\ [](\A i \in CallIds :
            /\ \A j \in CallIds :
                 (calls[i].pc = "done" /\ calls[j].pc = "done" /\ Inputs(i) = Inputs(j))
                 => Observed(i) = Observed(j)
            /\ (calls[i].pc = "done" /\ calls[i].cancelledAt = << >>) =>
                 LET n == Len(calls[i].outs)
                     last == calls[i].outs[n]
                 IN  /\ n >= 1
                     /\ calls[i].sends = n
                     /\ calls[i].delays = [k \in 1 .. n - 1 |-> retryDelay(retryConfig, k - 1)]
                     /\ \A k \in 1 .. n - 1 : ~Is2xx(calls[i].outs[k]) /\ ~Is4xx(calls[i].outs[k])
                     /\ calls[i].result =
                          IF Is2xx(last) THEN ReturnBody(last.body)
                          ELSE IF Is4xx(last) THEN ReturnErr(parseServerError(last.status, last.body))
                          ELSE ReturnErr(UcotronRetriesExhaustedError(
                                   retryConfig.MaxRetries + 1, ErrorOf(last)))
                     /\ (~Is2xx(last) /\ ~Is4xx(last)) => n = retryConfig.MaxRetries + 1)
    /\ [][retryConfig' = retryConfig /\ defaultNamespace' = defaultNamespace]_vars

C13_Witness ==
    /\ retryConfig.MaxRetries = 2
    /\ calls[1].pc = "done"
    /\ calls[1].outs = <<Resp(503, "text"), DoErr("net"), Resp(503, "text")>>
    /\ calls[1].result.err.kind = "UcotronRetriesExhaustedError"
    /\ calls[2].pc = "done"
    /\ calls[2].outs = <<Resp(503, "text"), Resp(200, "text")>>
    /\ calls[2].result = ReturnBody("text")
    /\ calls[2].delays = <<100>>

\* C14: in the Java client, when the calling thread is interrupted while
\* executeWithRetry sleeps between attempts, the sleep ends, no further round
\* trip is started, and the call fails at once with a cancellation error,
\* which is none of the connection, server and retries-exhausted exceptions.
C14_InterruptIsCancellationError ==
    (lang = "java" /\ CancelledAt("sleep"))
    => /\ NoSendAfterCancel
       /\ log[Len(log)] = <<"cancel", "sleep">>
       /\ pc = "done"
       /\ result.returned
       /\ result.err # Nil
       /\ result.err.kind \notin {"UcotronConnectionException", "UcotronServerException",
                                  "UcotronRetriesExhaustedException"}

\* min(b * 2^k, cap) for b >= 0 and 0 < cap < 2^31, in unbounded arithmetic:
\* b * 2^k < cap exactly if k <= 30 and b <= (cap - 1) \div 2^k
CappedProduct(b, k, cap) ==
    IF k <= 30 /\ b <= (cap - 1) \div 2^k THEN b * 2^k
    ELSE IF b = 0 THEN 0 ELSE cap

\* C15: in the Java client, for every RetryConfig and every retry index k
\* from 0 to maxRetries - 1, also those for which baseDelay * 2^k does not
\* fit in a long, the delay handed to Thread.sleep is
\* min(baseDelay * 2^k, maxDelay) milliseconds: never negative and never
\* more than maxDelay.
C15_JavaDelayIsCappedExponential ==
    (lang = "java" /\ delayAttempt >= 0) =>
        /\ delayOut = toLong(CappedProduct(retryConfig.baseDelay, delayAttempt,
                                           retryConfig.maxDelay))
        /\ ~lessThan(delayOut, toLong(0))
        /\ ~lessThan(toLong(retryConfig.maxDelay), delayOut)

\* every round trip so far ended in a 5xx response
All5xx == Received >= 1 /\ \A i \in 1 .. Received : Is5xx(Outcome(i))

\* every round trip so far was rejected with a ConnectException
AllConnectFailures ==
    Received >= 1 /\ \A i \in 1 .. Received : Outcome(i) = DoErr("ConnectException")

\* C16: in the PHP client, a call whose every attempt fails with a 5xx
\* response, or whose every attempt fails with a connection failure, ends,
\* once the retry budget is consumed, in a UcotronRetriesExhaustedException
\* that carries the attempt count and the underlying cause, not in a bare
\* server or connection exception.
C16_PhpExhaustedIsWrapped ==
    (lang = "php" /\ pc = "done" /\ (All5xx \/ AllConnectFailures))
    => /\ result.err # Nil
       /\ result.err.kind = "UcotronRetriesExhaustedException"
       /\ result.err.attempts = Sends

\* C17: in the PHP client with maxRetries = N >= 0, a call whose every
\* attempt receives a 5xx response invokes the transport handler exactly
\* N+1 times (once when N = 0) and then raises UcotronServerException with
\* the status of the last response; a call whose every attempt fails with a
\* ConnectException invokes the handler exactly N+1 times and then raises
\* UcotronConnectionException.
C17_PhpExhaustedIsBare ==
    (lang = "php" /\ retryConfig.maxRetries >= 0 /\ (All5xx \/ AllConnectFailures))
    => /\ Sends <= retryConfig.maxRetries + 1
       /\ pc = "done" <=> Received = retryConfig.maxRetries + 1
       /\ pc = "done" =>
            /\ Sends = retryConfig.maxRetries + 1
            /\ result.returned
            /\ All5xx => /\ result.err.kind = "UcotronServerException"
                          /\ result.err.statusCode = Outcome(Received).status
            /\ AllConnectFailures => result.err.kind = "UcotronConnectionException"

C17_Witness ==
    /\ lang = "php"
    /\ retryConfig.maxRetries = 2
    /\ retryConfig.baseDelayMs = 4
    /\ pc = "done"
    /\ Sends = 3
    /\ Received = 3
    /\ Outcome(1) = Resp(500, "text")
    /\ Outcome(3) = Resp(503, "text")
    /\ All5xx
    /\ Len(Sleeps) = 2
    /\ result.err = PhpServerException(503, "text")

\* C18 as stated: for every RetryConfig and every retry number n >= 1,
\* calculateDelay(n) never exceeds maxDelayMs and is never below
\* min(baseDelayMs * 2^(n-1), maxDelayMs); when the cap does not apply it
\* lies between baseDelayMs * 2^(n-1) and 1.25 * baseDelayMs * 2^(n-1); with
\* base 100, n = 1, 2, 3 give 100..125, 200..250, 400..500.
C18_DelayWithinJitterBounds ==
    (lang = "php" /\ delayAttempt >= 1) =>
        LET exp == retryConfig.baseDelayMs * 2^(delayAttempt - 1)
            cap == retryConfig.maxDelayMs
        IN  /\ delayOut <= cap
            /\ delayOut >= (IF exp < cap THEN exp ELSE cap)
            /\ delayOut # cap => (exp <= delayOut /\ 4 * delayOut <= 5 * exp)
            /\ (retryConfig.baseDelayMs = 100 /\ cap = 10000) =>
                   /\ delayAttempt = 1 => delayOut \in 100 .. 125
                   /\ delayAttempt = 2 => delayOut \in 200 .. 250
                   /\ delayAttempt = 3 => delayOut \in 400 .. 500

\* C18 (amended): the same for every RetryConfig whose baseDelayMs is not
\* negative; for a negative baseDelayMs the jitter is negative too, and the
\* result lies between 1.25 * baseDelayMs * 2^(n-1) and
\* baseDelayMs * 2^(n-1), capped by maxDelayMs.
C18_DelayWithinJitterBoundsOfBase ==
    (lang = "php" /\ delayAttempt >= 1) =>
        LET exp == retryConfig.baseDelayMs * 2^(delayAttempt - 1)
            cap == retryConfig.maxDelayMs
        IN  /\ delayOut <= cap
            /\ retryConfig.baseDelayMs >= 0 =>
                   /\ delayOut >= (IF exp < cap THEN exp ELSE cap)
                   /\ delayOut # cap => (exp <= delayOut /\ 4 * delayOut <= 5 * exp)
            /\ (retryConfig.baseDelayMs < 0 /\ delayOut # cap) =>
                   (4 * delayOut >= 5 * exp /\ delayOut <= exp)
            /\ (retryConfig.baseDelayMs = 100 /\ cap = 10000) =>
                   /\ delayAttempt = 1 => delayOut \in 100 .. 125
                   /\ delayAttempt = 2 => delayOut \in 200 .. 250
                   /\ delayAttempt = 3 => delayOut \in 400 .. 500

C18_Witness ==
    /\ lang = "php"
    /\ retryConfig.baseDelayMs = 100
    /\ retryConfig.maxDelayMs = 10000
    /\ delayAttempt = 3
    /\ delayOut = 500

\* the UcotronServerError the claim expects for an error response o
ExpectedServerError(o) ==
    [kind |-> "UcotronServerError", StatusCode |-> o.status,
     Code |-> IF o.body = "json_msg" THEN <<"code of", o.body>> ELSE StatusText(o.status),
     Message |-> IF o.body = "json_msg" THEN <<"message of", o.body>> ELSE <<"raw", o.body>>]

\* C19: in the Go client, the UcotronServerError built for an error response
\* whose body is not JSON or has no non-empty message has Code = the reason
\* phrase of the status and Message = the raw body, and the one built for a
\* JSON body with a message has Code and Message of the body; it is returned
\* directly for a 4xx and carried as LastError for a retryable status, and
\* building it never ends the call: after a retryable response with retries
\* left the backoff follows, and the call never returns any other error for
\* a response.
C19_ErrorBodyFallback ==
    (lang = "go" /\ Received >= 1 /\ Outcome(Received).t = "resp"
                /\ ~Is2xx(Outcome(Received)))
    => LET o == Outcome(Received)
           k == Received - 1
       IN  IF Is4xx(o)
           THEN Returned(ExpectedServerError(o))
           ELSE /\ lastErr = ExpectedServerError(o)
                /\ k < retryConfig.MaxRetries =>
                       /\ Len(Sleeps) = Received
                       /\ pc = "done" => Returned(CtxErr)
                /\ k >= retryConfig.MaxRetries =>
                       Returned(UcotronRetriesExhaustedError(
                                    retryConfig.MaxRetries + 1, ExpectedServerError(o)))

C19_Witness ==
    /\ lang = "go"
    /\ Received = 2
    /\ Outcome(1) = Resp(503, "json_nomsg")
    /\ Outcome(2) = Resp(500, "text")
    /\ Returned(UcotronRetriesExhaustedError(
                    2, [kind |-> "UcotronServerError", StatusCode |-> 500,
                        Code |-> StatusText(500), Message |-> <<"raw", "text">>]))

\* the positions of the batch a run processes: the first batchSize items of
\* the pending list, or all of them if there are fewer
ProcessedBatch ==
    1 .. (IF syncConfig.batchSize < Len(pendingItems)
          THEN syncConfig.batchSize ELSE Len(pendingItems))

\* the items for which an addMemory call returned
ItemsSynced == {i \in ProcessedBatch : \E k \in DOMAIN log : log[k][1] = "returned" /\ log[k][2] = i}

\* doSync returned a SyncResult with a status other than SKIPPED
SyncRan ==
    /\ lang = "kotlin"
    /\ pc = "done"
    /\ result.err = Nil
    /\ result.body.status # "SKIPPED"

\* C20: a run of doSync that is not skipped returns SUCCESS exactly if
\* every item of the processed batch synced (an empty pending list gives
\* SUCCESS with itemsSynced = 0), PARTIAL exactly if at least one but not
\* all of them synced, and FAILURE or RETRY only if the batch is not empty
\* and no item synced.
C20_StatusTellsHowManySynced ==
    SyncRan =>
        /\ result.body.status = "SUCCESS" <=> ItemsSynced = ProcessedBatch
        /\ pendingItems = << >> =>
               result.body.status = "SUCCESS" /\ result.body.itemsSynced = 0
        /\ result.body.status = "PARTIAL" <=>
               (ItemsSynced # {} /\ ItemsSynced # ProcessedBatch)
        /\ result.body.status \in {"FAILURE", "RETRY"} =>
               (ProcessedBatch # {} /\ ItemsSynced = {})
        /\ result.body.status \in {"SUCCESS", "PARTIAL", "FAILURE", "RETRY"}

\* a run over two items of which the first synced and the second failed on
\* its second attempt returned PARTIAL
C20_Witness ==
    /\ SyncRan
    /\ Len(pendingItems) = 2
    /\ syncConfig.batchSize = 50
    /\ syncConfig.maxRetries = 2
    /\ ItemsSynced = {1}
    /\ result.body.status = "PARTIAL"
    /\ result.body.itemsSynced = 1
    /\ Len(result.body.errors) = 1

\* the log entries of the addMemory calls that threw for item i
Thrown(i) == SelectSeq(log, LAMBDA ev : ev[1] = "threw" /\ ev[2] = i)

\* item i failed because the server answered 5xx: every addMemory call made
\* for it ended in exhausted retries whose last error is a 5xx answer
FailedBy5xx(i) ==
    /\ Thrown(i) # << >>
    /\ i \notin ItemsSynced
    /\ \A k \in DOMAIN Thrown(i) :
          LET e == Thrown(i)[k][4]
          IN  /\ e.kind = "UcotronRetriesExhaustedException"
              /\ e.cause.kind = "UcotronServerException"
              /\ e.cause.statusCode >= 500

\* C21: when every item of a non-empty batch fails because the server
\* answers 5xx, doSync returns FAILURE, not RETRY, with itemsSynced = 0 and
\* one error entry per batch item, whatever the text of the items is.
C21_All5xxIsFailure ==
    (SyncRan /\ ProcessedBatch # {} /\ \A i \in ProcessedBatch : FailedBy5xx(i))
    => /\ result.body.status = "FAILURE"
       /\ result.body.itemsSynced = 0
       /\ Len(result.body.errors) = Len(batch)

\* the items addMemory was called for, in the order of the calls
ItemsSent == [k \in DOMAIN Events("addMemory") |-> Events("addMemory")[k][2]]

\* C22: doSync processes exactly the first min(number of pending items,
\* batchSize) items, one at a time in list order, going on after an item
\* that failed; when it returns with a status other than SKIPPED,
\* itemsSynced plus the number of error entries is the number of items of
\* that batch; no item beyond the batch is sent to the server.
C22_BatchIsAccountedFor ==
    lang = "kotlin" =>
        /\ \A k \in DOMAIN ItemsSent :
              /\ ItemsSent[k] \in ProcessedBatch
              /\ k = 1 => ItemsSent[k] = 1
              /\ k > 1 => ItemsSent[k] \in {ItemsSent[k - 1], ItemsSent[k - 1] + 1}
        /\ SyncRan =>
              /\ result.body.itemsSynced + Len(result.body.errors)
                     = Cardinality(ProcessedBatch)
              /\ syncConfig.maxRetries >= 1 =>
                     {ItemsSent[k] : k \in DOMAIN ItemsSent} = ProcessedBatch

\* the item callbacks invoked so far, in order
ItemCallbacks == SelectSeq(log, LAMBDA ev : ev[1] \in {"onItemSynced", "onItemFailed"})

\* C23: if onSyncStart returns false, doSync returns SKIPPED with
\* itemsSynced = 0, sends nothing to the server and invokes no onItemSynced,
\* onItemFailed or onSyncComplete; otherwise each batch item triggers
\* exactly one of onItemSynced and onItemFailed, in item order, and
\* onSyncComplete is invoked exactly once, after all item callbacks, with
\* the result doSync returns.
C23_CallbackProtocol ==
    (lang = "kotlin" /\ callback # Nil /\ pc = "done" /\ result.err = Nil)
    => IF ~callback.onSyncStart
       THEN /\ result.body.status = "SKIPPED"
            /\ result.body.itemsSynced = 0
            /\ log = <<<<"onSyncStart", FALSE>>>>
       ELSE /\ result.body.status # "SKIPPED"
            /\ Len(ItemCallbacks) = Cardinality(ProcessedBatch)
            /\ \A k \in DOMAIN ItemCallbacks : ItemCallbacks[k][2] = k
            /\ Len(Events("onSyncComplete")) = 1
            /\ log[Len(log)] = <<"onSyncComplete", result.body>>

\* e is a UcotronServerException with a status in 400 .. 499
IsClientErrorException(e) ==
    e.kind = "UcotronServerException" /\ e.statusCode \in 400 .. 499

\* C24: in syncItemWithRetry an item whose addMemory call fails with a 4xx
\* UcotronServerException is not retried: for every maxRetries >= 1 no
\* backoff delay is taken after it, no further addMemory call is made for
\* the item, and the 4xx exception is what the item fails with.
C24_ClientErrorIsNotRetried ==
    (lang = "kotlin" /\ syncConfig.maxRetries >= 1)
    => \A k \in DOMAIN log :
          (log[k][1] = "threw" /\ IsClientErrorException(log[k][4]))
          => /\ k < Len(log) => log[k + 1][1] # "delay"
             /\ Cardinality({j \in DOMAIN log :
                                log[j][1] = "addMemory" /\ log[j][2] = log[k][2]}) = 1
             /\ \E n \in DOMAIN errors :
                   errors[n] = errorMsg(batch[log[k][2]], log[k][4])

\* C25: for every configuration NewClient accepts, zero and negative retry
\* fields included, and every sequence of attempt outcomes, a doRequest
\* call makes at least one and at most MaxRetries + 1 transport attempts
\* and at most MaxRetries backoff sleeps, and then returns, provided each
\* round trip completes and each sleep elapses or is cancelled.
C25_BoundedAttemptsThenReturn ==
    /\ [](lang = "go" =>
            /\ Sends <= retryConfig.MaxRetries + 1
            /\ Len(Sleeps) <= retryConfig.MaxRetries
            /\ pc = "done" => Sends >= 1)
    /\ <>(pc = "done" /\ result.returned)

\* C25, amended: the same, except that a call whose body cannot be
\* marshalled or whose request cannot be built returns that error without
\* any transport attempt and without a sleep; every other call makes at
\* least one attempt.
C25_BoundedAttemptsThenReturnUnlessUnbuildable ==
    /\ [](lang = "go" =>
            /\ Sends <= retryConfig.MaxRetries + 1
            /\ Len(Sleeps) <= retryConfig.MaxRetries
            /\ pc = "done" =>
                  IF body = "unencodable" \/ ~urlOK
                  THEN /\ Sends = 0
                       /\ Len(Sleeps) = 0
                       /\ result.err.kind = "fmt.wrapError"
                  ELSE Sends >= 1)
    /\ <>(pc = "done" /\ result.returned)

\* a client built from a configuration with negative retry fields made all
\* the attempts and took all the sleeps of the default budget, and returned
C25_Witness ==
    /\ lang = "go"
    /\ pc = "done"
    /\ retryConfig = NewClient([Retry |-> [MaxRetries |-> -1, BaseDelayMs |-> 0,
                                          MaxDelayMs |-> -1],
                                DefaultNamespace |-> ""]).retryConfig
    /\ Sends = defaultMaxRetries + 1
    /\ Len(Sleeps) = defaultMaxRetries
    /\ result.err.kind = "UcotronRetriesExhaustedError"

\* C26: the Go doRequest returns a response as success only if its status
\* is in 200..299 and treats it as not retryable only if its status is in
\* 400..499; a response with any other status (1xx, 3xx, 500 and above) is
\* recorded as the last error and retried like a 5xx until the budget is
\* used up, so it is never returned as a success body.
C26_OnlyTwoRangesEndTheCall ==
    lang = "go" =>
        /\ (pc = "done" /\ result.err = Nil) =>
               (Received >= 1 /\ Is2xx(Outcome(Received)))
        /\ (pc = "done" /\ result.err.kind = "UcotronServerError") =>
               (Received >= 1 /\ Is4xx(Outcome(Received)))
        /\ \A i \in 1 .. Received :
              LET o == Outcome(i)
              IN  (o.t = "resp" /\ ~Is2xx(o) /\ ~Is4xx(o)) =>
                     /\ i = Received => lastErr = ExpectedServerError(o)
                     /\ i < retryConfig.MaxRetries + 1 =>
                            /\ Len(Sleeps) >= i
                            /\ Sleeps[i] = <<"sleep", i - 1, retryDelay(retryConfig, i - 1)>>
                            /\ (i = Received /\ pc = "done") => Returned(CtxErr)
                     /\ (i = retryConfig.MaxRetries + 1) =>
                            Returned(UcotronRetriesExhaustedError(
                                         retryConfig.MaxRetries + 1, ExpectedServerError(o)))

\* a 101 answer and a 304 answer were each followed by a backoff and a new
\* attempt, and the call ended with its retries exhausted after a 500
C26_Witness ==
    /\ lang = "go"
    /\ retryConfig.MaxRetries = 2
    /\ Received = 3
    /\ Outcome(1).status = 101
    /\ Outcome(2).status = 304
    /\ Outcome(3).status = 500
    /\ Len(Sleeps) = 2
    /\ pc = "done"
    /\ result.err.kind = "UcotronRetriesExhaustedError"

\* what a call ended in: success, a server error and its status, exhausted
\* retries and their attempt count, or something else
ResultClass(r) ==
    IF ~r.returned THEN <<"running">>
    ELSE IF r.err = Nil THEN <<"success">>
    ELSE IF r.err.kind = "UcotronServerError" THEN <<"server error", r.err.StatusCode>>
    ELSE IF r.err.kind = "UcotronServerException" THEN <<"server error", r.err.statusCode>>
    ELSE IF r.err.kind = "UcotronRetriesExhaustedError"
         THEN <<"retries exhausted", r.err.Attempts>>
    ELSE IF r.err.kind = "UcotronRetriesExhaustedException"
         THEN <<"retries exhausted", r.err.attempts>>
    ELSE <<"other", r.err.kind>>

\* C27: for the same maxRetries, baseDelay and maxDelay and the same
\* sequence of attempt outcomes drawn from 2xx, 4xx, 5xx and transport
\* failure, the Go doRequest loop and the Java executeWithRetry loop make
\* the same number of transport attempts, take the same sequence of backoff
\* delays and end in the same result class.
C27_GoAndJavaLoopsAgree ==
    pc = "pair" =>
        /\ calls.go.sends = calls.java.sends
        /\ Len(calls.go.delays) = Len(calls.java.delays)
        /\ \A i \in DOMAIN calls.go.delays :
              i \in DOMAIN calls.java.delays =>
                  toLong(calls.go.delays[i]) = calls.java.delays[i]
        /\ ResultClass(calls.go.result) = ResultClass(calls.java.result)

\* C28: for every RetryConfig the Java constructor accepts, executeWithRetry
\* makes at least one transport attempt before it fails, and every
\* UcotronRetriesExhaustedException it throws has a cause that is not null
\* and an attempts value that is at least 1 and equal to the number of
\* transport attempts the call made.
C28_JavaExhaustedCountsRealAttempts ==
    (lang = "java" /\ pc = "done" /\ result.err # Nil)
    => /\ Sends >= 1
       /\ result.err.kind = "UcotronRetriesExhaustedException" =>
              /\ result.err.cause # Nil
              /\ result.err.attempts >= 1
              /\ result.err.attempts = Sends

=============================================================================
